---- MODULE Spec2Model ----
(***************************************************************************)
(* A model of the jigsaw generator (src/jigsaw/generate.py): the entry     *)
(* formatter, the piece layout engine (make_triangles / make_squares),     *)
(* the domino sequencer and a generation run with its random source.       *)
(*                                                                         *)
(* Conventions.  Python lists are sequences; a Python index k is the       *)
(* sequence index k + 1.  A text is a sequence of tokens (strings): a      *)
(* word, a white-space token, or an image reference.  A YAML entry is a    *)
(* record [isdict, str, d]: a plain string (str) or a dict (d, a function  *)
(* from its keys to their values).                                         *)
(***************************************************************************)
EXTENDS Integers, Sequences, FiniteSets, TLC

\* ------------------------------------------------------------------ bounds
MaxTri == 2
MaxSq == 2

\* ------------------------------------------------------ program constants
\* generate.py:55
normalsize == 4

\* generate.py:44-54, the LaTeX font sizes
sizes == << "\\tiny", "\\scriptsize", "\\footnotesize", "\\small",
            "\\normalsize", "\\large", "\\Large", "\\LARGE", "\\huge",
            "\\Huge" >>

\* ------------------------------------------------------------- utilities
Max(a, b) == IF a >= b THEN a ELSE b

Range(s) == {s[k] : k \in DOMAIN s}

\* part is a run of consecutive tokens of text
Within(part, text) ==
    \E k \in 0..(Len(text) - Len(part)) :
        SubSeq(text, k + 1, k + Len(part)) = part

\* The orderings with one item lost
Shuffles_short(n) ==
    {p \in [1..(n - 1) -> 0..(n - 1)] :
        \A a, b \in 1..(n - 1) : a # b => p[a] # p[b]}

\* All orderings of 0..n-1 as sequences: the outcomes of random.shuffle on
\* list(range(n)).
Shuffles(n) ==
    {p \in [1..n -> 0..(n - 1)] : \A a, b \in 1..n : a # b => p[a] # p[b]}

\* ------------------------------------------------------------------ texts
WhiteSpace == {" ", "\n", "\t"}

\* An image reference ![caption](path) is one token; img_re matches it.
ImgTokens == {"![cap](pic.png)", "![](pic.png)"}

RECURSIVE Rstrip(_)
\* str.rstrip(): drops the trailing white space
Rstrip(t) ==
    IF t = <<>> THEN <<>>
    ELSE IF t[Len(t)] \in WhiteSpace THEN Rstrip(SubSeq(t, 1, Len(t) - 1))
    ELSE t

\* img2tex on one token: \imagecap{img}{caption} or \image{img}
Img2texTok(tok) ==
    IF tok = "![cap](pic.png)" THEN "\\imagecap{pic.png}{cap}"
    ELSE IF tok = "![](pic.png)" THEN "\\image{pic.png}"
    ELSE tok

\* img2tex: every image reference of the text is rewritten
img2tex(t) == [k \in DOMAIN t |-> Img2texTok(t[k])]

\* ---------------------------------------------------------------- cardnum
RECURSIVE StrInt(_)
\* str(n) for n >= 0: the decimal digits, most significant first
StrInt(n) ==
    IF n < 10 THEN <<ToString(n)>>
    ELSE Append(StrInt(n \div 10), ToString(n % 10))

\* cardnum with the digit test widened to every number ending in 6 or 9
cardnum_anyDigit(n) ==
    IF n % 10 \in {6, 9} THEN <<"\\underline{">> \o StrInt(n) \o <<"}">>
    ELSE StrInt(n)

\* cardnum(n): underline 6 and 9; everything else as a string
cardnum(n) ==
    IF n \in {6, 9} THEN <<"\\underline{">> \o StrInt(n) \o <<"}">>
    ELSE StrInt(n)

\* ------------------------------------------------------------ number angle
\* The angle with the normalisation dropped
NumberAngle_raw(puznumdir, solorient, puzorient, turn, rot) ==
    puznumdir + (solorient - puzorient) - turn * rot

\* The angle with the rotation added instead of undone
NumberAngle_plus(puznumdir, solorient, puzorient, turn, rot) ==
    ((puznumdir + (solorient - puzorient) + turn * rot + 180) % 360) - 180

\* The unnormalised angle of the card number on a solution card
RawAngle(puznumdir, solorient, puzorient, turn, rot) ==
    puznumdir + (solorient - puzorient) - turn * rot

\* The angle stored on the solution card: (angle + 180) % 360 - 180
NumberAngle(puznumdir, solorient, puzorient, turn, rot) ==
    ((RawAngle(puznumdir, solorient, puzorient, turn, rot) + 180) % 360) - 180

\* ---------------------------------------------------------------- entries
NoKeys == [k \in {} |-> <<>>]

\* A plain (string) entry and a dict entry
Plain(t) == [isdict |-> FALSE, str |-> t, d |-> NoKeys]
Dict(f) == [isdict |-> TRUE, str |-> <<>>, d |-> f]

Has(entry, key) == key \in DOMAIN entry.d

\* An integer-valued key: int(value) succeeds with n, or raises
IntVal(n) == [ok |-> TRUE, n |-> n]
NotInt == [ok |-> FALSE, n |-> 0]

\* sizes[k] as Python indexes a list: negative indices count from the end
PyIndexOk(seq, k) == k < Len(seq) /\ k >= 0 - Len(seq)
PyIndex(seq, k) == IF k >= 0 THEN seq[k + 1] ELSE seq[Len(seq) + k + 1]
SizeName(k) == IF PyIndexOk(sizes, k) THEN PyIndex(sizes, k) ELSE "<IndexError>"

\* make_entry_size with a size that is no number taken as no change to the
\* default size of the call
make_entry_size_default(entry, sizekey, defaultsize, entrysize) ==
    LET fallback == IF entrysize.some THEN entrysize.v ELSE defaultsize
    IN  IF Has(entry, sizekey)
        THEN IF entry.d[sizekey].ok
             THEN LET size == defaultsize + entry.d[sizekey].n
                  IN  IF size < 0 THEN 0
                      ELSE IF size >= Len(sizes) THEN Len(sizes) - 1
                      ELSE size
             ELSE defaultsize
        ELSE fallback

\* make_entry_size; entrysize is [some, v], None being some = FALSE
make_entry_size(entry, sizekey, defaultsize, entrysize) ==
    LET fallback == IF entrysize.some THEN entrysize.v ELSE defaultsize
    IN  IF Has(entry, sizekey)
        THEN IF entry.d[sizekey].ok
             THEN LET size == defaultsize + entry.d[sizekey].n
                  IN  IF size < 0 THEN 0
                      ELSE IF size >= Len(sizes) THEN Len(sizes) - 1
                      ELSE size
             ELSE fallback
        ELSE fallback

\* make_entry_util with the hidden mark never applied
make_entry_util_unmarked(text, size, mark_hidden, style, blank) ==
    LET t == Rstrip(text)
    IN  CASE style = "table" -> img2tex(t)
          [] style = "tikz" -> <<"{regular}{", size, " ">> \o img2tex(t) \o <<"}">>
          [] OTHER -> IF t # <<>> THEN t ELSE blank

\* make_entry_util: the output once text, size, hide and style are known
make_entry_util(text, size, mark_hidden, style, blank) ==
    LET t == Rstrip(text)
    IN  IF mark_hidden
        THEN CASE style = "table" -> <<"(*) ">> \o img2tex(t)
               [] style = "tikz" ->
                    <<"{hidden}{", size, " ">> \o img2tex(t) \o <<"}">>
               [] OTHER -> <<"(*) ">> \o t
        ELSE CASE style = "table" -> img2tex(t)
               [] style = "tikz" ->
                    <<"{regular}{", size, " ">> \o img2tex(t) \o <<"}">>
               [] OTHER -> IF t # <<>> THEN t ELSE blank

\* make_entry_label
make_entry_label(entry, style, defaultlabel, defaultlabelsize) ==
    LET labeltext == IF entry.isdict /\ Has(entry, "label")
                     THEN Rstrip(entry.d["label"])
                     ELSE Rstrip(defaultlabel)
        labelsize == IF entry.isdict /\ Has(entry, "labelsize")
                     THEN entry.d["labelsize"]
                     ELSE defaultlabelsize
    IN  CASE style = "table" -> img2tex(labeltext)
          [] style = "tikz" ->
               IF labeltext # <<>>
               THEN <<SizeName(labelsize), " ">> \o img2tex(labeltext)
               ELSE <<>>
          [] OTHER -> labeltext

\* EntryLacksText with a lone puzzletext or solutiontext refused whether or
\* not the dict has a text
EntryLacksText_strict(entry) ==
    /\ entry.isdict
    /\ \/ Has(entry, "puzzletext") # Has(entry, "solutiontext")
       \/ ~Has(entry, "text") /\ ~Has(entry, "puzzletext")

\* make_entry, lines 253-266: the dict has no usable text
EntryLacksText(entry) ==
    /\ entry.isdict
    /\ ~Has(entry, "text")
    /\ (~Has(entry, "puzzletext") \/ ~Has(entry, "solutiontext"))

\* EntryAfter with hidden: true put into every dict that has none
EntryAfter_always(entry) ==
    IF entry.isdict /\ ~EntryLacksText(entry) /\ ~Has(entry, "hidden")
    THEN Dict([k \in DOMAIN entry.d \cup {"hidden"} |->
                 IF k = "hidden" THEN TRUE ELSE entry.d[k]])
    ELSE entry

\* make_entry, lines 276-278: the entry as the call leaves it (a
\* solutiontext without a hidden key gets hidden: true)
EntryAfter(entry) ==
    IF entry.isdict /\ ~EntryLacksText(entry)
       /\ Has(entry, "solutiontext") /\ ~Has(entry, "hidden")
    THEN Dict([k \in DOMAIN entry.d \cup {"hidden"} |->
                 IF k = "hidden" THEN TRUE ELSE entry.d[k]])
    ELSE entry

\* make_entry, lines 280-285: hide, which also sets exists_hidden
EntryHide(entry) ==
    LET e == EntryAfter(entry)
    IN  e.isdict /\ ~EntryLacksText(e) /\ Has(e, "hidden") /\ e.d["hidden"]

\* EntryHide with the flag raised by every dict entry
EntryHide_always(entry) == entry.isdict

\* make_entry with the hidden branch of the puzzle view dropped
make_entry_showsHidden(entry, defaultsize, style, defaultlabel, defaultlabelsize, blank, solution) ==
    LET label == make_entry_label(entry, style, defaultlabel, defaultlabelsize)
    IN  IF ~entry.isdict
        THEN <<make_entry_util(entry.str, SizeName(defaultsize), FALSE,
                               style, blank), label>>
        ELSE IF EntryLacksText(entry)
        THEN <<make_entry_util(<<>>, "", FALSE, style, blank), label>>
        ELSE <<make_entry_util(IF Has(entry, "text") THEN entry.d["text"]
                               ELSE entry.d["puzzletext"],
                               SizeName(defaultsize), FALSE, style, blank),
               label>>

\* make_entry, lines 255-262: the message printed to stderr for a dict
\* without usable text (the keys of the entry follow it)
make_entry_stderr(entry) ==
    IF ~EntryLacksText(entry) THEN <<>>
    ELSE IF Has(entry, "puzzletext") \/ Has(entry, "solutiontext")
    THEN <<"Cannot have only one of \"puzzletext\" and \"solutiontext\"",
           "in an entry.\nRelevant entry is:\n">>
    ELSE <<"No \"text\" field in entry in data file. ",
           "Relevant entry is:\n">>

\* make_entry, lines 287-312: the size key of the text that the view shows
OwnSizeKey(entry, solution) ==
    IF solution /\ Has(entry, "solutiontext") THEN "solutionsize"
    ELSE IF ~solution /\ Has(entry, "puzzletext") THEN "puzzlesize"
    ELSE "size"

\* make_entry: the call evaluates sizes[...] (not in the error branch, and
\* not for the puzzle view of a hidden entry without puzzletext)
SizeLooked(entry, solution) ==
    \/ ~entry.isdict
    \/ /\ ~EntryLacksText(entry)
       /\ solution \/ Has(entry, "puzzletext") \/ ~EntryHide(entry)

\* make_entry: the index at which the call reads sizes
SizeIndex(entry, defaultsize, solution) ==
    IF ~entry.isdict THEN defaultsize
    ELSE LET size == make_entry_size(entry, "size", defaultsize,
                                     [some |-> FALSE, v |-> 0])
         IN  IF OwnSizeKey(entry, solution) = "size" THEN size
             ELSE make_entry_size(entry, OwnSizeKey(entry, solution),
                                  defaultsize, [some |-> TRUE, v |-> size])

\* make_entry: sizes[...] raises IndexError
make_entry_raises(entry, defaultsize, solution) ==
    /\ SizeLooked(entry, solution)
    /\ ~PyIndexOk(sizes, SizeIndex(entry, defaultsize, solution))

\* make_entry_size, lines 336-340: the size keys for which the calls of
\* make_entry print 'Unrecognised size entry', in the order of the calls
make_entry_size_stderr(entry, solution) ==
    IF ~entry.isdict \/ EntryLacksText(entry) THEN <<>>
    ELSE (IF Has(entry, "size") /\ ~entry.d["size"].ok
          THEN <<"size">> ELSE <<>>)
         \o (IF /\ OwnSizeKey(entry, solution) # "size"
                /\ Has(entry, OwnSizeKey(entry, solution))
                /\ ~entry.d[OwnSizeKey(entry, solution)].ok
             THEN <<OwnSizeKey(entry, solution)>> ELSE <<>>)

\* make_entry: the pair (text, label)
make_entry(entry, defaultsize, style, defaultlabel, defaultlabelsize, blank, solution) ==
    LET label == make_entry_label(entry, style, defaultlabel, defaultlabelsize)
        size == make_entry_size(entry, "size", defaultsize,
                                [some |-> FALSE, v |-> 0])
        hide == EntryHide(entry)
        have == [some |-> TRUE, v |-> size]
    IN  IF ~entry.isdict
        THEN <<make_entry_util(entry.str, SizeName(defaultsize), FALSE,
                               style, blank), label>>
        ELSE IF EntryLacksText(entry)
        THEN <<make_entry_util(<<>>, "", FALSE, style, blank), label>>
        ELSE IF solution
        THEN IF Has(entry, "solutiontext")
             THEN <<make_entry_util(entry.d["solutiontext"],
                        SizeName(make_entry_size(entry, "solutionsize",
                                                 defaultsize, have)),
                        hide, style, blank), label>>
             ELSE <<make_entry_util(entry.d["text"], SizeName(size),
                                    hide, style, blank), label>>
        ELSE IF Has(entry, "puzzletext")
        THEN <<make_entry_util(entry.d["puzzletext"],
                   SizeName(make_entry_size(entry, "puzzlesize",
                                            defaultsize, have)),
                   FALSE, style, blank), label>>
        ELSE IF hide
        THEN <<make_entry_util(<<>>, "", FALSE, style, blank), <<>>>>
        ELSE <<make_entry_util(entry.d["text"], SizeName(size),
                               FALSE, style, blank), label>>

\* The default arguments of make_entry (line 189)
DefaultBlank == <<"(BLANK)">>

\* ------------------------------------------------------------------ state
VARIABLES
    pc,               \* the position of the run
    data,             \* the data file's options (a function from its keys)
    layout,           \* the layout (a function from its keys)
    heap,             \* the entry objects of the data file, by identity
    pairs,            \* the pairs of the data file: <<id, id>> each
    flippedpairs,     \* the pairs handed to the piece makers and the dominoes
    edges,            \* the edges: one id each
    trianglesolcard, triangleorder, trianglepuzcard,
    squaresolcard, squareorder, squarepuzcard,
    i,                \* the loop index of the placement loop
    trirot, sqrot,    \* the rotation drawn for each solution card so far
    dsubs, dsubsmd,   \* the substitution variables
    exists_hidden,    \* the module-level flag (line 58)
    arg, ret,         \* the arguments and the result of a single call
    realpairs,        \* make_domino_cards: the indices of the real pairs
    cardorder, invcardorder,
    cur,              \* the position of "for p in pairs" in the list
    puzbody, solbody, puzbodymd, solbodymd,
    faces,            \* the entries given to make_entry for each domino so far
    random,           \* the state of the random module
    runs,             \* the runs of the program on the same data file
    cards,            \* the cards of the data file: the id of each
    deck,             \* make_cardsort_cards: the label, its size, pagecards
    exitmsg           \* the message of sys.exit, once the run has exited

vars == << pc, data, layout, heap, pairs, flippedpairs, edges,
           trianglesolcard, triangleorder, trianglepuzcard,
           squaresolcard, squareorder, squarepuzcard,
           i, trirot, sqrot, dsubs, dsubsmd, exists_hidden, arg, ret,
           realpairs, cardorder, invcardorder, cur,
           puzbody, solbody, puzbodymd, solbodymd, faces, random, runs,
           cards, deck, exitmsg >>

\* The variables of the card sequencer
SeqVars == << realpairs, cardorder, invcardorder, cur,
              puzbody, solbody, puzbodymd, solbodymd, faces >>

\* The variables of a single call of a function
CallVars == << arg, ret >>

\* The variables of the card sort
CardsortVars == << cards, deck >>

\* ---------------------------------------------------- the random module
\* The state of the generator: unseeded it holds what the operating system
\* gave it, and its draws are arbitrary; once seeded, the draws are a function
\* of the seed, of the number of draws made since and of what is asked.  The
\* tape holds the draws made so far under the seed: a draw at a position of
\* the tape that asks the same again is given the same.
Unseeded == [seeded |-> FALSE, seed |-> <<>>, n |-> 0, tape |-> <<>>]

\* A value of a YAML scalar: null (None) or a text
PyNone == [none |-> TRUE, text |-> <<>>]
PyText(t) == [none |-> FALSE, text |-> t]

\* random.seed(a): None seeds from the operating system
Seed(rnd, a) ==
    IF a.none THEN [rnd EXCEPT !.seeded = FALSE]
    ELSE [seeded |-> TRUE, seed |-> a.text, n |-> 0,
          tape |-> IF rnd.seed = a.text THEN rnd.tape ELSE <<>>]

Request(fn, a, b) == [fn |-> fn, a |-> a, b |-> b]

Replayed(rnd, req) ==
    /\ rnd.seeded
    /\ rnd.n < Len(rnd.tape)
    /\ rnd.tape[rnd.n + 1].req = req

\* The outcomes a draw can have
Draws(rnd, req, choices) ==
    IF Replayed(rnd, req) THEN {rnd.tape[rnd.n + 1].val} ELSE choices

\* The generator after the draw of val
Drawn(rnd, req, val) ==
    IF ~rnd.seeded THEN rnd
    ELSE IF Replayed(rnd, req) THEN [rnd EXCEPT !.n = @ + 1]
    ELSE [rnd EXCEPT !.n = @ + 1,
                     !.tape = Append(SubSeq(@, 1, rnd.n),
                                     [req |-> req, val |-> val])]

\* random.shuffle of a list of n items draws an ordering of 0..n-1
ShuffleRequest(n) == Request("shuffle", 0, n)

\* random.randint(a, b)
RandintRequest(a, b) == Request("randint", a, b)

\* The list lst in the order drawn
Shuffled(lst, order) == [k \in DOMAIN lst |-> lst[order[k] + 1]]

\* One process: the generator as the interpreter starts it, no run made
NoRuns == [run |-> 0]

RunIdle == random = Unseeded /\ runs = NoRuns

\* No cards read, no deck begun, no exit
CardsortIdle == cards = <<>> /\ deck = NoKeys /\ exitmsg = <<>>

\* getopt with no command-line options and no config file: the data, then
\* the layout, then the default
getopt(lay, dat, opt, default) ==
    IF opt \in DOMAIN dat THEN dat[opt]
    ELSE IF opt \in DOMAIN lay THEN lay[opt]
    ELSE default

\* str(n) of an integer
PyStr(n) == IF n < 0 THEN <<"-">> \o StrInt(0 - n) ELSE StrInt(n)

\* ('{%s}' * n) % parts, each part a text
RECURSIVE Braces(_)
Braces(parts) ==
    IF parts = <<>> THEN <<>>
    ELSE <<"{">> \o Head(parts) \o <<"}">> \o Braces(Tail(parts))

\* A layout reference such as "Q3" is [role |-> "Q", num |-> 3]; entrynum
\* is num - 1 and indexes the list as Python does.
RefList(ref, prs, edg) == IF ref.role = "E" THEN edg ELSE prs

RefOk(ref, prs, edg) ==
    /\ ref.role \in {"Q", "A", "E"}
    /\ PyIndexOk(RefList(ref, prs, edg), ref.num - 1)

\* Resolve with the 1-based index used as a 0-based one
Resolve_offByOne(ref, prs, edg) ==
    LET lst == RefList(ref, prs, edg)
        item == lst[((ref.num) % Len(lst)) + 1]
    IN  CASE ref.role = "Q" -> item[1]
          [] ref.role = "A" -> item[2]
          [] OTHER -> item

\* The entry a reference selects (lines 482-488)
Resolve(ref, prs, edg) ==
    LET item == PyIndex(RefList(ref, prs, edg), ref.num - 1)
    IN  CASE ref.role = "Q" -> item[1]
          [] ref.role = "A" -> item[2]
          [] OTHER -> item

CardOk(card, prs, edg) == \A k \in DOMAIN card : RefOk(card[k], prs, edg)

AssembleCard(card, prs, edg) ==
    [k \in DOMAIN card |-> Resolve(card[k], prs, edg)]

\* The rotation of a triangle with the shift direction reversed
TriRotate_reversed(solcard, rot) ==
    << solcard[((3 + rot) % 3) + 1],
       solcard[((4 + rot) % 3) + 1],
       solcard[((5 + rot) % 3) + 1] >>

\* Lines 511-513: the entries of the puzzle card, rotated anticlockwise
TriRotate(solcard, rot) ==
    << solcard[((3 - rot) % 3) + 1],
       solcard[((4 - rot) % 3) + 1],
       solcard[((5 - rot) % 3) + 1] >>

\* The rotation of a square with the last entry a copy of the third
SqRotate_dup(solcard, rot) ==
    << solcard[((4 - rot) % 4) + 1],
       solcard[((5 - rot) % 4) + 1],
       solcard[((6 - rot) % 4) + 1],
       solcard[((6 - rot) % 4) + 1] >>

\* Lines 618-621
SqRotate(solcard, rot) ==
    << solcard[((4 - rot) % 4) + 1],
       solcard[((5 - rot) % 4) + 1],
       solcard[((6 - rot) % 4) + 1],
       solcard[((7 - rot) % 4) + 1] >>

\* The slot of solution card k (0-based) chosen without the shuffled order
SlotOf_first(order, k) == order[1]

\* Lines 509 and 616: j = order[i]
SlotOf(order, k) == order[k + 1]

\* The position number of a square slot without the triangle offset
SquareNumber_noOffset(j, num_triangle_cards) == j + 1

\* Lines 622 and 632: the position number of square slot j
SquareNumber(j, num_triangle_cards) == j + num_triangle_cards + 1

\* Line 514: the position number of triangle slot j
TriangleNumber(j) == j + 1

\* make_entry(...)[0] of a heap entry in the tikz style
Tikz(h, id, size, solution) ==
    make_entry(h[id], size, "tikz", <<>>, 0, DefaultBlank, solution)[1]

\* make_entry(entry, 0, 'md')[0]
Md(h, id) == make_entry(h[id], 0, "md", <<>>, 0, DefaultBlank, FALSE)[1]

\* The heap after make_entry has been called on the entries ids
Touch(h, ids) ==
    [id \in DOMAIN h |-> IF id \in ids THEN EntryAfter(h[id]) ELSE h[id]]

\* The number field of a card: '%s %s' % (sizes[max(size-3, 0)], num)
NumberText(numbering, size, num) ==
    IF numbering THEN <<SizeName(Max(size - 3, 0)), " ">> \o num ELSE <<>>

\* The markdown row of a puzzle card (lines 549-553, 659-662); an unfilled
\* slot [] gives the bare '|'
RECURSIVE MdCells(_, _)
MdCells(h, ids) ==
    IF ids = <<>> THEN <<>>
    ELSE <<" ">> \o Md(h, Head(ids)) \o <<" |">> \o MdCells(h, Tail(ids))

MdRow(h, card, n) ==
    <<"|">> \o MdCells(h, IF card = <<>> THEN <<>> ELSE SubSeq(card, 1, n))

RECURSIVE MdRows(_, _, _, _)
MdRows(h, solcards, n, tail) ==
    IF solcards = <<>> THEN <<>>
    ELSE MdRow(h, Head(solcards), n) \o tail \o MdRows(h, Tail(solcards), n, tail)

\* dsubs with key set to val
Put(subs, key, val) ==
    [k \in DOMAIN subs \cup {key} |-> IF k = key THEN val ELSE subs[k]]

GetOr(subs, key, default) == IF key \in DOMAIN subs THEN subs[key] ELSE default

\* ------------------------------------------------- sample data and layouts
Txt(tag, k) == <<tag, ToString(k)>>

\* The question side, the answer side of pair k and edge e of the data file
SampleQ(k) ==
    CASE k % 3 = 1 -> Plain(Txt("q", k))
      [] k % 3 = 2 -> Dict([text |-> Txt("q", k), hidden |-> TRUE])
      [] OTHER -> Dict([puzzletext |-> <<"?">>, solutiontext |-> Txt("q", k)])

SampleA(k) ==
    IF k % 2 = 1 THEN Plain(Txt("a", k) \o <<" ">>)
    ELSE Dict([text |-> Txt("a", k), size |-> IntVal(1)])

SampleE(e) == IF e % 2 = 1 THEN Plain(<<>>) ELSE Plain(Txt("e", e))

\* The heap of a data file with np pairs and ne edges: the two sides of
\* pair k are objects 2k-1 and 2k, edge e is object 2np+e
SampleHeap(np, ne) ==
    [id \in 1..(2 * np + ne) |->
        IF id > 2 * np THEN SampleE(id - 2 * np)
        ELSE IF id % 2 = 1 THEN SampleQ((id + 1) \div 2)
        ELSE SampleA(id \div 2)]

SamplePairs(np) == [k \in 1..np |-> <<2 * k - 1, 2 * k>>]
SampleEdges(np, ne) == [e \in 1..ne |-> 2 * np + e]

Ref(role, num) == [role |-> role, num |-> num]

\* A layout of t triangles and s squares over t+s pairs and t+s+1 edges:
\* piece k asks pair k, answers the next piece's pair and has its own edge;
\* squares add the shared last edge.  bad spoils the first reference: "zero"
\* (index 0), "over" (one past the end), "role" (an unknown prefix).
SpoilFirst(solcards, bad, np) ==
    IF solcards = <<>> \/ bad = "ok" THEN solcards
    ELSE [solcards EXCEPT ![1][1] =
            CASE bad = "zero" -> Ref("Q", 0)
              [] bad = "over" -> Ref("Q", np + 1)
              [] OTHER -> Ref("X", 1)]

TriCards(t) ==
    [k \in 1..t |-> << Ref("Q", k), Ref("A", (k % t) + 1), Ref("E", k) >>]

SqCards(t, s) ==
    [k \in 1..s |-> << Ref("Q", t + k), Ref("A", t + (k % s) + 1),
                       Ref("E", t + k), Ref("E", t + s + 1) >>]

\* Orientation tables: base side of solution card k, and (base side, card
\* number direction) of puzzle slot k
TriSolOrient(t) == [k \in 1..t |-> 180 - 60 * (k - 1)]
TriPuzOrient(t) == [k \in 1..t |-> << 60 * (k - 1), 90 * (k - 1) - 30 >>]
SqSolOrient(s) == [k \in 1..s |-> 90 * (k - 1)]
SqPuzOrient(s) == [k \in 1..s |-> << 90 * (k % 4), 45 * (k - 1) >>]

TriPart(t, bad) ==
    [triangleSolutionCards |-> SpoilFirst(TriCards(t), bad, t),
     triangleSolutionOrientation |-> TriSolOrient(t),
     trianglePuzzleOrientation |-> TriPuzOrient(t)]

SqPart(t, s, bad) ==
    [squareSolutionCards |->
        SpoilFirst(SqCards(t, s), IF t = 0 THEN bad ELSE "ok", t + s),
     squareSolutionOrientation |-> SqSolOrient(s),
     squarePuzzleOrientation |-> SqPuzOrient(s)]

SampleLayout(hasTri, t, hasSq, s, bad) ==
    (IF hasTri THEN TriPart(t, bad) ELSE NoKeys)
    @@ (IF hasSq THEN SqPart(t, s, bad) ELSE NoKeys)

BadKinds == {"ok", "zero", "over", "role"}

\* ---------------------------------------------------------------- Init
\* No cards are being sequenced
SeqIdle ==
    /\ realpairs = <<>> /\ cardorder = <<>> /\ invcardorder = <<>>
    /\ cur = 0
    /\ puzbody = <<>> /\ solbody = <<>>
    /\ puzbodymd = <<>> /\ solbodymd = <<>>
    /\ faces = <<>>

\* No jigsaw is being made: the variables of the piece makers at rest
PiecesIdle ==
    /\ trianglesolcard = <<>> /\ triangleorder = <<>> /\ trianglepuzcard = <<>>
    /\ squaresolcard = <<>> /\ squareorder = <<>> /\ squarepuzcard = <<>>
    /\ i = 0
    /\ trirot = <<>> /\ sqrot = <<>>

\* The state on entry to the piece makers (line 1542), for a layout and a
\* data file of the sample family.
PiecesInit(t, s, hasTri, hasSq, bad, numbering) ==
    /\ pc = "jigsaw_triangles"
    /\ layout = SampleLayout(hasTri, t, hasSq, s, bad)
    /\ data = IF numbering THEN NoKeys ELSE [numberCards |-> FALSE]
    /\ heap = SampleHeap(t + s, t + s + 1)
    /\ pairs = SamplePairs(t + s)
    /\ flippedpairs = SamplePairs(t + s)
    /\ edges = SampleEdges(t + s, t + s + 1)
    /\ trianglesolcard = <<>> /\ triangleorder = <<>> /\ trianglepuzcard = <<>>
    /\ squaresolcard = <<>> /\ squareorder = <<>> /\ squarepuzcard = <<>>
    /\ i = 0
    /\ trirot = <<>> /\ sqrot = <<>>
    /\ dsubs = NoKeys /\ dsubsmd = NoKeys
    /\ exists_hidden = FALSE
    /\ arg = NoKeys /\ ret = NoKeys
    /\ SeqIdle
    /\ RunIdle
    /\ CardsortIdle

\* Every layout up to the bounds with well-formed references and numbered
\* cards; the small layouts also unnumbered and with a spoiled reference.
Init ==
    \E t \in 0..MaxTri, s \in 0..MaxSq, hasTri, hasSq, numbering \in BOOLEAN,
       bad \in BadKinds :
        /\ hasTri \/ t = 0
        /\ hasSq \/ s = 0
        /\ (numbering /\ bad = "ok") \/ (t <= 1 /\ s <= 1)
        /\ PiecesInit(t, s, hasTri, hasSq, bad, numbering)

\* ------------------------------------------------------- the piece makers
PieceVars == << trianglesolcard, triangleorder, trianglepuzcard,
                squaresolcard, squareorder, squarepuzcard, i, trirot, sqrot >>

\* generate_jigsaw, lines 1542-1543
JigsawTriangles ==
    /\ pc = "jigsaw_triangles"
    /\ pc' = IF "triangleSolutionCards" \in DOMAIN layout
             THEN "tri_assemble" ELSE "jigsaw_squares"
    /\ UNCHANGED << CallVars, CardsortVars, exitmsg, SeqVars, random, runs, data, layout, heap,
                    pairs, flippedpairs, edges, PieceVars,
                    dsubs, dsubsmd, exists_hidden >>

\* make_triangles, lines 468-499: the solution cards are read from the
\* layout; a bad reference ends the run (IndexError, or the NameError of
\* the undefined printf)
TriAssemble ==
    /\ pc = "tri_assemble"
    /\ LET solcards == layout["triangleSolutionCards"]
       IN  IF \A k \in DOMAIN solcards : CardOk(solcards[k], flippedpairs, edges)
           THEN /\ trianglesolcard' =
                     [k \in DOMAIN solcards |-> AssembleCard(solcards[k], flippedpairs, edges)]
                /\ pc' = "tri_shuffle"
           ELSE /\ pc' = "crashed"
                /\ UNCHANGED trianglesolcard
    /\ UNCHANGED << CallVars, CardsortVars, exitmsg, SeqVars, random, runs, data, layout, heap,
                    pairs, flippedpairs, edges, triangleorder,
                    trianglepuzcard, squaresolcard, squareorder,
                    squarepuzcard, i, trirot, sqrot, dsubs, dsubsmd,
                    exists_hidden >>

\* make_triangles, lines 501-504
TriShuffle ==
    /\ pc = "tri_shuffle"
    /\ LET req == ShuffleRequest(Len(layout["triangleSolutionCards"]))
       IN  \E order \in Draws(random, req,
                               Shuffles(Len(layout["triangleSolutionCards"]))) :
               /\ triangleorder' = order
               /\ random' = Drawn(random, req, order)
    /\ trianglepuzcard' =
           [k \in 1..Len(layout["triangleSolutionCards"]) |-> <<>>]
    /\ i' = 0
    /\ trirot' = <<>>
    /\ pc' = "tri_place"
    /\ UNCHANGED << CallVars, CardsortVars, exitmsg, SeqVars, runs, data, layout, heap, pairs,
                    flippedpairs, edges, trianglesolcard,
                    squaresolcard, squareorder, squarepuzcard, sqrot,
                    dsubs, dsubsmd, exists_hidden >>

\* make_triangles, lines 508-538: one turn of the placement loop
TriPlace ==
    /\ pc = "tri_place"
    /\ i < Len(trianglesolcard)
    /\ \E draw \in Draws(random, RandintRequest(0, 2), {<<r>> : r \in 0..2}) :
        LET rot == draw[1]
            solcard == trianglesolcard[i + 1]
            solorient == layout["triangleSolutionOrientation"]
            puzorient == layout["trianglePuzzleOrientation"]
            puzzle_size == getopt(layout, data, "puzzleTextSize", 5)
            solution_size == getopt(layout, data, "solutionTextSize", 5)
            numbering == getopt(layout, data, "numberCards", TRUE)
            j == SlotOf(triangleorder, i)
            num == cardnum(TriangleNumber(j))
            puzcard == TriRotate(solcard, rot) \o << num, puzorient[j + 1][2] >>
            angle == NumberAngle(puzorient[j + 1][2], solorient[i + 1],
                                 puzorient[j + 1][1], 120, rot)
            h1 == Touch(heap, Range(solcard))
        IN  /\ trianglepuzcard' = [trianglepuzcard EXCEPT ![j + 1] = puzcard]
            /\ trianglesolcard' =
                 [trianglesolcard EXCEPT ![i + 1] = solcard \o << num, angle >>]
            /\ trirot' = Append(trirot, rot)
            /\ random' = Drawn(random, RandintRequest(0, 2), draw)
            /\ dsubs' =
                 Put(Put(dsubs, <<"trisolcard", i + 1>>,
                         Braces(<< Tikz(heap, solcard[1], solution_size, TRUE),
                                   Tikz(heap, solcard[2], solution_size, TRUE),
                                   Tikz(heap, solcard[3], solution_size, TRUE),
                                   NumberText(numbering, solution_size, num),
                                   PyStr(angle) >>)),
                     <<"tripuzcard", j + 1>>,
                     Braces(<< Tikz(h1, puzcard[1], puzzle_size, FALSE),
                               Tikz(h1, puzcard[2], puzzle_size, FALSE),
                               Tikz(h1, puzcard[3], puzzle_size, FALSE),
                               NumberText(numbering, puzzle_size, num),
                               PyStr(puzcard[5]) >>))
            /\ heap' = h1
            /\ exists_hidden' =
                 (exists_hidden \/ \E id \in Range(solcard) : EntryHide(heap[id]))
    /\ i' = i + 1
    /\ UNCHANGED << CallVars, CardsortVars, exitmsg, SeqVars, runs, pc, data, layout, pairs,
                    flippedpairs, edges, triangleorder,
                    squaresolcard, squareorder, squarepuzcard, sqrot, dsubsmd >>

\* make_triangles, lines 543-553: the markdown rows of the puzzle cards
TriMarkdown ==
    /\ pc = "tri_place"
    /\ i = Len(trianglesolcard)
    /\ LET row3 == MdRows(heap, trianglepuzcard, 3, <<"\n">>)
           row4 == MdRows(heap, trianglepuzcard, 3, <<" &nbsp; |\n">>)
       IN  dsubsmd' =
             Put(Put(dsubsmd, <<"puzcards3", 0>>,
                     GetOr(dsubsmd, <<"puzcards3", 0>>, <<>>) \o row3),
                 <<"puzcards4", 0>>,
                 GetOr(dsubsmd, <<"puzcards4", 0>>, <<>>) \o row4)
    /\ pc' = "jigsaw_squares"
    /\ UNCHANGED << CallVars, CardsortVars, exitmsg, SeqVars, random, runs, data, layout, heap,
                    pairs, flippedpairs, edges, PieceVars, dsubs,
                    exists_hidden >>

\* generate_jigsaw, lines 1545-1546
JigsawSquares ==
    /\ pc = "jigsaw_squares"
    /\ pc' = IF "squareSolutionCards" \in DOMAIN layout
             THEN "sq_assemble" ELSE "jigsaw_notes"
    /\ UNCHANGED << CallVars, CardsortVars, exitmsg, SeqVars, random, runs, data, layout, heap,
                    pairs, flippedpairs, edges, PieceVars,
                    dsubs, dsubsmd, exists_hidden >>

\* make_squares, lines 574-606; line 578 reads the triangle cards of the
\* layout whether or not it has any (a KeyError ends the run)
SqAssemble ==
    /\ pc = "sq_assemble"
    /\ LET solcards == layout["squareSolutionCards"]
       IN  IF /\ "triangleSolutionCards" \in DOMAIN layout
              /\ \A k \in DOMAIN solcards : CardOk(solcards[k], flippedpairs, edges)
           THEN /\ squaresolcard' =
                     [k \in DOMAIN solcards |-> AssembleCard(solcards[k], flippedpairs, edges)]
                /\ pc' = "sq_shuffle"
           ELSE /\ pc' = "crashed"
                /\ UNCHANGED squaresolcard
    /\ UNCHANGED << CallVars, CardsortVars, exitmsg, SeqVars, random, runs, data, layout, heap,
                    pairs, flippedpairs, edges, trianglesolcard,
                    triangleorder, trianglepuzcard, squareorder,
                    squarepuzcard, i, trirot, sqrot, dsubs, dsubsmd,
                    exists_hidden >>

\* make_squares, lines 608-611
SqShuffle ==
    /\ pc = "sq_shuffle"
    /\ LET req == ShuffleRequest(Len(layout["squareSolutionCards"]))
       IN  \E order \in Draws(random, req,
                               Shuffles(Len(layout["squareSolutionCards"]))) :
               /\ squareorder' = order
               /\ random' = Drawn(random, req, order)
    /\ squarepuzcard' = [k \in 1..Len(layout["squareSolutionCards"]) |-> <<>>]
    /\ i' = 0
    /\ sqrot' = <<>>
    /\ pc' = "sq_place"
    /\ UNCHANGED << CallVars, CardsortVars, exitmsg, SeqVars, runs, data, layout, heap, pairs,
                    flippedpairs, edges, trianglesolcard,
                    triangleorder, trianglepuzcard, squaresolcard, trirot,
                    dsubs, dsubsmd, exists_hidden >>

\* make_squares, lines 615-650: one turn of the placement loop
SqPlace ==
    /\ pc = "sq_place"
    /\ i < Len(squaresolcard)
    /\ \E draw \in Draws(random, RandintRequest(0, 3), {<<r>> : r \in 0..3}) :
        LET rot == draw[1]
            solcard == squaresolcard[i + 1]
            solorient == layout["squareSolutionOrientation"]
            puzorient == layout["squarePuzzleOrientation"]
            puzzle_size == getopt(layout, data, "puzzleTextSize", 5)
            solution_size == getopt(layout, data, "solutionTextSize", 5)
            numbering == getopt(layout, data, "numberCards", TRUE)
            num_triangle_cards == Len(layout["triangleSolutionCards"])
            j == SlotOf(squareorder, i)
            num == cardnum(SquareNumber(j, num_triangle_cards))
            puzcard == SqRotate(solcard, rot) \o << num, puzorient[j + 1][2] >>
            angle == NumberAngle(puzorient[j + 1][2], solorient[i + 1],
                                 puzorient[j + 1][1], 90, rot)
            h1 == Touch(heap, Range(solcard))
        IN  /\ squarepuzcard' = [squarepuzcard EXCEPT ![j + 1] = puzcard]
            /\ squaresolcard' =
                 [squaresolcard EXCEPT ![i + 1] = solcard \o << num, angle >>]
            /\ sqrot' = Append(sqrot, rot)
            /\ random' = Drawn(random, RandintRequest(0, 3), draw)
            /\ dsubs' =
                 Put(Put(dsubs, <<"sqsolcard", i + 1>>,
                         Braces(<< Tikz(heap, solcard[1], solution_size, TRUE),
                                   Tikz(heap, solcard[2], solution_size, TRUE),
                                   Tikz(heap, solcard[3], solution_size, TRUE),
                                   Tikz(heap, solcard[4], solution_size, TRUE),
                                   NumberText(numbering, solution_size, num),
                                   PyStr(angle) >>)),
                     <<"sqpuzcard", j + 1>>,
                     Braces(<< Tikz(h1, puzcard[1], puzzle_size, FALSE),
                               Tikz(h1, puzcard[2], puzzle_size, FALSE),
                               Tikz(h1, puzcard[3], puzzle_size, FALSE),
                               Tikz(h1, puzcard[4], puzzle_size, FALSE),
                               NumberText(numbering, puzzle_size, num),
                               PyStr(puzcard[6]) >>))
            /\ heap' = h1
            /\ exists_hidden' =
                 (exists_hidden \/ \E id \in Range(solcard) : EntryHide(heap[id]))
    /\ i' = i + 1
    /\ UNCHANGED << CallVars, CardsortVars, exitmsg, SeqVars, runs, pc, data, layout, pairs,
                    flippedpairs, edges, trianglesolcard,
                    triangleorder, trianglepuzcard, squareorder, trirot,
                    dsubsmd >>

\* make_squares, lines 655-662
SqMarkdown ==
    /\ pc = "sq_place"
    /\ i = Len(squaresolcard)
    /\ dsubsmd' =
         Put(dsubsmd, <<"puzcards4", 0>>,
             GetOr(dsubsmd, <<"puzcards4", 0>>, <<>>)
                 \o MdRows(heap, squarepuzcard, 4, <<"\n">>))
    /\ pc' = "jigsaw_notes"
    /\ UNCHANGED << CallVars, CardsortVars, exitmsg, SeqVars, random, runs, data, layout, heap,
                    pairs, flippedpairs, edges, PieceVars, dsubs,
                    exists_hidden >>

\* generate_jigsaw, lines 1548-1564: the hidden note and the puzzle note
JigsawNotes ==
    /\ pc = "jigsaw_notes"
    /\ LET note == getopt(layout, data, "note", <<>>)
           hiddennote == getopt(layout, data, "hiddennote",
               <<"Entries that are hidden in the puzzle are highlighted in yellow.">>)
           hiddennotemd == getopt(layout, data, "hiddennotemd",
               <<"Entries that are hidden in the puzzle are indicated with (*).">>)
           hiddennotetable == getopt(layout, data, "hiddennotetable",
                                     hiddennotemd)
       IN  /\ dsubs' =
                Put(Put(Put(dsubs, <<"hiddennotesolution", 0>>,
                            IF exists_hidden THEN hiddennote ELSE <<>>),
                        <<"hiddennotetable", 0>>,
                        IF exists_hidden THEN hiddennotetable ELSE <<>>),
                    <<"puzzlenote", 0>>, note)
           /\ dsubsmd' =
                Put(Put(dsubsmd, <<"hiddennotemd", 0>>,
                        IF exists_hidden THEN hiddennotemd ELSE <<>>),
                    <<"puzzlenote", 0>>, note)
    /\ pc' = "done"
    /\ UNCHANGED << CallVars, CardsortVars, exitmsg, SeqVars, random, runs, data, layout, heap,
                    pairs, flippedpairs, edges, PieceVars, exists_hidden >>

Next ==
    \/ JigsawTriangles
    \/ TriAssemble
    \/ TriShuffle
    \/ TriPlace
    \/ TriMarkdown
    \/ JigsawSquares
    \/ SqAssemble
    \/ SqShuffle
    \/ SqPlace
    \/ SqMarkdown
    \/ JigsawNotes

Spec == Init /\ [][Next]_vars

\* ----------------------------------------------------------------- claims
NumTri == IF "triangleSolutionCards" \in DOMAIN layout
          THEN Len(layout["triangleSolutionCards"]) ELSE 0
NumSq == IF "squareSolutionCards" \in DOMAIN layout
         THEN Len(layout["squareSolutionCards"]) ELSE 0

\* The 1-based index of the reference lies in its list
InRange(ref) ==
    ref.num \in 1..Len(RefList(ref, flippedpairs, edges))

\* Every reference of the solution cards of the layout is in range
AllInRange(solcards) ==
    \A k \in DOMAIN solcards : \A j \in DOMAIN solcards[k] :
        InRange(solcards[k][j])

\* C20: during piece assembly, every layout index-map entry whose 1-based
\* index lies outside 1..len(pairs) (for Q/A) or 1..len(edges) (for E),
\* including index 0 and negative indices, produces a fatal configuration
\* error; no piece is ever assembled from an entry selected by an
\* out-of-range index.
C20_IndexChecked ==
    /\ trianglesolcard # <<>> => AllInRange(layout["triangleSolutionCards"])
    /\ squaresolcard # <<>> => AllInRange(layout["squareSolutionCards"])

\* A jigsaw is finished whose first triangle asks for Q0: the piece shows
\* the question of the last pair
C20_IndexZero ==
    /\ pc = "done"
    /\ trianglesolcard # <<>>
    /\ layout["triangleSolutionCards"][1][1] = Ref("Q", 0)
    /\ trianglesolcard[1][1] = flippedpairs[Len(flippedpairs)][1]

\* An index one past the end of the list, or a prefix that is none of Q, A
\* and E, ends the run in an exception before any piece is assembled
C20_OverEndsRun ==
    ( /\ "triangleSolutionCards" \in DOMAIN layout
      /\ \E k \in DOMAIN layout["triangleSolutionCards"] :
            \E j \in DOMAIN layout["triangleSolutionCards"][k] :
                LET ref == layout["triangleSolutionCards"][k][j]
                IN  \/ ref.role \notin {"Q", "A", "E"}
                    \/ ref.num > Len(RefList(ref, flippedpairs, edges)) )
    => (trianglesolcard = <<>> /\ pc \in {"jigsaw_triangles", "tri_assemble", "crashed"})

\* The placement loop of make_triangles (make_squares) has run to its end
TriDone ==
    /\ "triangleSolutionCards" \in DOMAIN layout
    /\ pc \notin {"jigsaw_triangles", "tri_assemble", "tri_shuffle"}
    /\ Len(trianglepuzcard) = NumTri
    /\ Len(trirot) = NumTri
SqDone ==
    /\ "squareSolutionCards" \in DOMAIN layout
    /\ pc \in {"sq_place", "jigsaw_notes", "done"}
    /\ Len(squarepuzcard) = NumSq
    /\ Len(sqrot) = NumSq

\* order is a bijection on 0..n-1 and every slot of puzcard holds the
\* entries of exactly one card of solcard, the one order sends there
Placed(order, solcard, puzcard, n, sides) ==
    /\ Len(order) = n
    /\ {order[k] : k \in 1..n} = 0..(n - 1)
    /\ \A j \in 1..n :
        /\ puzcard[j] # <<>>
        /\ Cardinality({k \in 1..n : order[k] = j - 1}) = 1
        /\ \A k \in 1..n :
             (order[k] = j - 1)
             <=> (Range(SubSeq(puzcard[j], 1, sides))
                    = Range(SubSeq(solcard[k], 1, sides)))

\* C1: after the placement loop the slot assignment is a bijection on
\* 0..n-1: every puzzle slot holds exactly one solved piece, no two solved
\* pieces share a slot and no slot is left as the empty placeholder.
C1_SlotsBijective ==
    /\ TriDone => Placed(triangleorder, trianglesolcard, trianglepuzcard,
                         NumTri, 3)
    /\ SqDone => Placed(squareorder, squaresolcard, squarepuzcard, NumSq, 4)

C1_Witness ==
    /\ pc = "done"
    /\ TriDone /\ NumTri = 2 /\ triangleorder = <<1, 0>>
    /\ SqDone /\ NumSq = 2 /\ squareorder = <<1, 0>>

\* The entries of the puzzle card of solution card k (1-based) against the
\* rule puzzleEntries[m] = solvedEntries[(N - r + m) mod N]
ShiftedBy(order, rots, solcard, puzcard, k, n) ==
    \A m \in 0..(n - 1) :
        puzcard[order[k] + 1][m + 1] = solcard[k][((n - rots[k] + m) % n) + 1]

\* C2: for every solved piece i and its drawn rotation r, the puzzle piece
\* at slot pi(i) has puzzleEntries[k] = solvedEntries[(N - r + k) mod N]
\* for every k in 0..N-1 (N = 3 for triangles, 4 for squares).
C2_RotationRule ==
    /\ \A k \in 1..Len(trirot) :
         ShiftedBy(triangleorder, trirot, trianglesolcard, trianglepuzcard, k, 3)
    /\ \A k \in 1..Len(sqrot) :
         ShiftedBy(squareorder, sqrot, squaresolcard, squarepuzcard, k, 4)

C2_Witness ==
    /\ pc = "done"
    /\ Len(trirot) = 2 /\ trirot[1] = 1 /\ trirot[2] = 2
    /\ Len(sqrot) = 2 /\ sqrot[1] = 3 /\ sqrot[2] = 1

\* The card x of n sides shifted by s: entry m is x[(n - s + m) mod n]
CyclicShift(x, n, s) == [m \in 1..n |-> x[((n - s + (m - 1)) % n) + 1]]

\* The entries of x, each with the number of times it occurs
Occurrences(x, n) ==
    [e \in Range(SubSeq(x, 1, n)) |-> Cardinality({m \in 1..n : x[m] = e})]

RoundTrip(order, rots, solcard, puzcard, k, n) ==
    LET puz == SubSeq(puzcard[order[k] + 1], 1, n)
        sol == SubSeq(solcard[k], 1, n)
    IN  /\ CyclicShift(puz, n, n - rots[k]) = sol
        /\ Occurrences(puz, n) = Occurrences(sol, n)
        /\ \E s \in 0..(n - 1) : puz = CyclicShift(sol, n, s)

\* C3: the inverse rotation (a shift by N - r) of a puzzle piece recovers
\* the solved piece's entries in their original order, and the puzzle piece
\* is a cyclic rotation of the solved piece: the same entries, nothing lost
\* or duplicated.
C3_RotationRoundTrip ==
    /\ \A k \in 1..Len(trirot) :
         RoundTrip(triangleorder, trirot, trianglesolcard, trianglepuzcard, k, 3)
    /\ \A k \in 1..Len(sqrot) :
         RoundTrip(squareorder, sqrot, squaresolcard, squarepuzcard, k, 4)

C3_Witness ==
    /\ Len(sqrot) = 2 /\ sqrot[1] = 2 /\ sqrot[2] = 3
    /\ Len(trirot) = 2 /\ trirot[1] = 2 /\ trirot[2] = 0
    /\ triangleorder = <<1, 0>>

\* The stored angle of solution card k against the formula of the claim
AngleOf(order, rots, solorient, puzorient, k, n) ==
    LET j == order[k] + 1
        angle == puzorient[j][2] + (solorient[k] - puzorient[j][1])
                   - (360 \div n) * rots[k]
    IN  ((angle + 180) % 360) - 180

\* C4: the number angle of solution piece i in slot j with rotation r is,
\* before normalisation, numberDirection[j] + (solutionBase[i] -
\* slotBase[j]) - (360/N) * r; for N = 3, solutionBase 180, slotBase 0,
\* numberDirection -30 and rotation 1 the stored angle is 30.
C4_NumberAngle ==
    /\ \A k \in 1..Len(trirot) :
         /\ trianglesolcard[k][5] =
              AngleOf(triangleorder, trirot, layout["triangleSolutionOrientation"],
                      layout["trianglePuzzleOrientation"], k, 3)
         /\ ( /\ layout["triangleSolutionOrientation"][k] = 180
              /\ layout["trianglePuzzleOrientation"][triangleorder[k] + 1]
                   = <<0, -30>>
              /\ trirot[k] = 1 ) => trianglesolcard[k][5] = 30
    /\ \A k \in 1..Len(sqrot) :
         squaresolcard[k][6] =
           AngleOf(squareorder, sqrot, layout["squareSolutionOrientation"],
                   layout["squarePuzzleOrientation"], k, 4)

C4_Witness ==
    /\ Len(trirot) = 2 /\ trirot = <<1, 2>> /\ triangleorder = <<0, 1>>
    /\ layout["triangleSolutionOrientation"][1] = 180
    /\ layout["trianglePuzzleOrientation"][1] = <<0, -30>>
    /\ trianglesolcard[1][5] = 30
    /\ Len(sqrot) = 2

\* The number a card number text shows: its digits, the underline dropped
RECURSIVE DigitsValue(_)
DigitsValue(t) ==
    IF t = <<>> THEN 0
    ELSE 10 * DigitsValue(SubSeq(t, 1, Len(t) - 1))
           + (CHOOSE d \in 0..9 : ToString(d) = t[Len(t)])

NumberShown(t) ==
    DigitsValue(SelectSeq(t, LAMBDA tok : tok \notin {"\\underline{", "}"}))

\* C6: with T triangle and S square pieces, triangle slot j (0-based)
\* carries number j+1 and square slot j carries T+j+1: over the whole
\* puzzle the position numbers are exactly 1..T+S, each used once.
C6_PositionNumbers ==
    /\ TriDone => \A j \in 1..NumTri : NumberShown(trianglepuzcard[j][4]) = j
    /\ SqDone => \A j \in 1..NumSq :
                    NumberShown(squarepuzcard[j][5]) = NumTri + j
    /\ SqDone =>
         /\ {NumberShown(trianglepuzcard[j][4]) : j \in 1..NumTri}
              \cup {NumberShown(squarepuzcard[j][5]) : j \in 1..NumSq}
              = 1..(NumTri + NumSq)
         /\ \A a \in 1..NumTri, b \in 1..NumSq :
              NumberShown(trianglepuzcard[a][4])
                # NumberShown(squarepuzcard[b][5])

C6_Witness ==
    /\ pc = "done" /\ NumTri = 2 /\ NumSq = 2
    /\ NumberShown(squarepuzcard[2][5]) = 4
    /\ NumberShown(trianglepuzcard[2][4]) = 2

\* ------------------------------------------------- single calls: the angle
AngleSteps == 6

\* Orientations in steps of 30 degrees; number directions also one degree
\* to either side of a step
Orients == {30 * k : k \in (0 - AngleSteps)..AngleSteps}
NumDirs == {o + d : o \in Orients, d \in {-1, 0, 1}}

RestVars == << data, layout, heap, pairs, flippedpairs, edges, PieceVars,
              SeqVars, dsubs, dsubsmd, random, runs, CardsortVars,
              exitmsg >>

RestIdle ==
    /\ data = NoKeys /\ layout = NoKeys /\ heap = <<>>
    /\ pairs = <<>> /\ flippedpairs = <<>> /\ edges = <<>>
    /\ dsubs = NoKeys /\ dsubsmd = NoKeys
    /\ PiecesIdle
    /\ SeqIdle
    /\ RunIdle
    /\ CardsortIdle

AngleInit ==
    /\ pc = "angle_call"
    /\ \E puznumdir \in NumDirs, solorient \in Orients, puzorient \in Orients,
          sides \in {3, 4}, rot \in 0..3 :
         /\ rot < sides
         /\ arg = [puznumdir |-> puznumdir, solorient |-> solorient,
                   puzorient |-> puzorient, sides |-> sides, rot |-> rot]
    /\ ret = NoKeys
    /\ exists_hidden = FALSE
    /\ RestIdle

\* Lines 520-523 (triangles, 120 a turn) and 629-633 (squares, 90 a turn)
AngleCall ==
    /\ pc = "angle_call"
    /\ LET turn == IF arg.sides = 3 THEN 120 ELSE 90
       IN  ret' = [raw |-> RawAngle(arg.puznumdir, arg.solorient,
                                    arg.puzorient, turn, arg.rot),
                   angle |-> NumberAngle(arg.puznumdir, arg.solorient,
                                         arg.puzorient, turn, arg.rot)]
    /\ pc' = "angle_return"
    /\ UNCHANGED << arg, exists_hidden, RestVars >>

SpecAngle == AngleInit /\ [][AngleCall]_vars

\* C5 as claimed: the stored angle lies in the half-open interval
\* (-180, 180] and is congruent modulo 360 to the unnormalised angle.
C5_Original ==
    pc = "angle_return" =>
        /\ ret.angle > -180 /\ ret.angle <= 180
        /\ (ret.angle - ret.raw) % 360 = 0

\* C5, amended: the stored angle lies in the half-open interval
\* [-180, 180), so 180 is never produced and -180 can be, and is congruent
\* modulo 360 to the unnormalised angle.
C5_AngleRange ==
    pc = "angle_return" =>
        /\ ret.angle >= -180 /\ ret.angle < 180
        /\ (ret.angle - ret.raw) % 360 = 0

C5_Witness ==
    /\ pc = "angle_return"
    /\ ret.raw = 180
    /\ ret.angle = -180

\* ----------------------------------------------- single calls: cardnum
MaxCardnum == 200

CardnumInit ==
    /\ pc = "cardnum_call"
    /\ \E n \in 1..MaxCardnum : arg = [n |-> n]
    /\ ret = NoKeys
    /\ exists_hidden = FALSE
    /\ RestIdle

\* Lines 411-416
CardnumCall ==
    /\ pc = "cardnum_call"
    /\ ret' = [text |-> cardnum(arg.n)]
    /\ pc' = "cardnum_return"
    /\ UNCHANGED << arg, exists_hidden, RestVars >>

SpecCardnum == CardnumInit /\ [][CardnumCall]_vars

DigitTokens == {ToString(d) : d \in 0..9}

\* t is the plain decimal string of n: digits only, no leading zero
PlainDecimal(t, n) ==
    /\ t # <<>>
    /\ \A k \in DOMAIN t : t[k] \in DigitTokens
    /\ (Len(t) > 1 => t[1] # "0")
    /\ DigitsValue(t) = n

\* C7: cardnum(6) and cardnum(9) are the number wrapped in an underline;
\* for every other n in 1..200 cardnum(n) is the plain decimal string of n
\* with no decoration.
C7_Underline ==
    pc = "cardnum_return" =>
        IF arg.n \in {6, 9}
        THEN /\ Len(ret.text) >= 3
             /\ ret.text[1] = "\\underline{"
             /\ ret.text[Len(ret.text)] = "}"
             /\ PlainDecimal(SubSeq(ret.text, 2, Len(ret.text) - 1), arg.n)
        ELSE PlainDecimal(ret.text, arg.n)

C7_Witness ==
    /\ pc = "cardnum_return"
    /\ arg.n = 9
    /\ ret.text = <<"\\underline{", "9", "}">>

\* ------------------------------------------- single calls: make_entry
SampleText == <<"word", "![cap](pic.png)", " ">>
SamplePuzzleText == <<"?">>
SampleSolutionText == <<"answer", "\n">>

Styles == {"table", "tikz", "md"}

\* The value of a size key of a sample entry
SizeValue(sz) ==
    CASE sz = "bad" -> NotInt
      [] sz = "down" -> IntVal(-2)
      [] OTHER -> IntVal(2)

\* A dict entry with the chosen keys; hid, sz and own are "absent" or a
\* value; own is the value of puzzlesize and of solutionsize
EntryOf(hasText, hasPuz, hasSol, hid, sz, own) ==
    Dict((IF hasText THEN [text |-> SampleText] ELSE NoKeys)
         @@ (IF hasPuz THEN [puzzletext |-> SamplePuzzleText] ELSE NoKeys)
         @@ (IF hasSol THEN [solutiontext |-> SampleSolutionText] ELSE NoKeys)
         @@ (IF hid = "absent" THEN NoKeys ELSE [hidden |-> (hid = "true")])
         @@ (IF sz = "absent" THEN NoKeys ELSE [size |-> SizeValue(sz)])
         @@ (IF own = "absent" THEN NoKeys
             ELSE [puzzlesize |-> SizeValue(own),
                   solutionsize |-> SizeValue(own)]))

\* The default sizes of the sample calls: in the range of sizes, and one
\* below and one above it
DefaultSizes == {-1, 0, 5, Len(sizes)}

EntryInit ==
    /\ pc = "entry_call"
    /\ \/ \E hasText, hasPuz, hasSol \in BOOLEAN,
             hid \in {"absent", "true", "false"},
             sz \in {"absent", "bad", "up", "down"},
             own \in {"absent", "bad", "up"} :
            heap = << EntryOf(hasText, hasPuz, hasSol, hid, sz, own) >>
       \/ heap = << Plain(SampleText) >>
    /\ \E style \in Styles, solution \in BOOLEAN, defaultsize \in DefaultSizes :
         arg = [style |-> style, solution |-> solution,
                defaultsize |-> defaultsize]
    /\ ret = NoKeys
    /\ exists_hidden = FALSE
    /\ data = NoKeys /\ layout = NoKeys
    /\ pairs = <<>> /\ flippedpairs = <<>> /\ edges = <<>>
    /\ dsubs = NoKeys /\ dsubsmd = NoKeys
    /\ PiecesIdle
    /\ SeqIdle
    /\ RunIdle
    /\ CardsortIdle

\* One call of make_entry on the entry object heap[1], with the default
\* label arguments and the default blank
EntryCall ==
    /\ pc = "entry_call"
    /\ LET out == make_entry(heap[1], arg.defaultsize, arg.style, <<>>, 0,
                             DefaultBlank, arg.solution)
           warned == make_entry_size_stderr(heap[1], arg.solution)
       IN  IF make_entry_raises(heap[1], arg.defaultsize, arg.solution)
           THEN /\ ret' = [warned |-> warned]
                /\ pc' = "crashed"
           ELSE /\ ret' = [text |-> out[1], label |-> out[2],
                           stderr |-> make_entry_stderr(heap[1]),
                           warned |-> warned,
                           size |-> IF SizeLooked(heap[1], arg.solution)
                                    THEN <<SizeIndex(heap[1], arg.defaultsize,
                                                     arg.solution)>>
                                    ELSE <<>>]
                /\ pc' = "entry_return"
    /\ heap' = Touch(heap, {1})
    /\ exists_hidden' = (exists_hidden \/ EntryHide(heap[1]))
    /\ UNCHANGED << arg, data, layout, pairs, flippedpairs, edges, PieceVars,
                    SeqVars, dsubs, dsubsmd, random, runs, CardsortVars,
                    exitmsg >>

SpecEntry == EntryInit /\ [][EntryCall]_vars

\* The output for suppressed content in each style
Suppressed(out, style) ==
    out = CASE style = "table" -> <<>>
            [] style = "tikz" -> <<"{regular}{", "", " ", "}">>
            [] OTHER -> DefaultBlank

\* out shows text (right-stripped; image references converted in the table
\* and tikz styles) with the hidden mark of the style
MarkedHidden(out, style, text) ==
    CASE style = "table" ->
           /\ out # <<>> /\ out[1] = "(*) "
           /\ Tail(out) = img2tex(Rstrip(text))
      [] style = "tikz" ->
           /\ Len(out) >= 4 /\ out[1] = "{hidden}{" /\ out[Len(out)] = "}"
           /\ SubSeq(out, 4, Len(out) - 1) = img2tex(Rstrip(text))
      [] OTHER ->
           /\ out # <<>> /\ out[1] = "(*) "
           /\ Tail(out) = Rstrip(text)

\* The entry of the call is a dict with hidden: true and no solutiontext
HiddenNoSolution(e) ==
    e.isdict /\ Has(e, "hidden") /\ e.d["hidden"] /\ ~Has(e, "solutiontext")

\* C8 as claimed: for any dict entry with hidden: true and no solutiontext,
\* whatever its other keys, the puzzle view is suppressed, the solution view
\* is the original text marked as hidden, and exists_hidden is true after
\* either call.
C8_Original ==
    (pc = "entry_return" /\ HiddenNoSolution(heap[1])) =>
        /\ exists_hidden
        /\ ~arg.solution => Suppressed(ret.text, arg.style)
        /\ arg.solution =>
             /\ Has(heap[1], "text")
             /\ MarkedHidden(ret.text, arg.style, heap[1].d["text"])

\* C8, amended: for any dict entry with hidden: true, a text key and
\* neither puzzletext nor solutiontext, the puzzle view is suppressed, the
\* solution view is the text marked as hidden, and exists_hidden is true
\* after either call.
C8_HiddenEntry ==
    ( /\ pc = "entry_return"
      /\ HiddenNoSolution(heap[1])
      /\ Has(heap[1], "text")
      /\ ~Has(heap[1], "puzzletext") ) =>
        /\ exists_hidden
        /\ ~arg.solution => Suppressed(ret.text, arg.style)
        /\ arg.solution => MarkedHidden(ret.text, arg.style, heap[1].d["text"])

C8_Witness ==
    /\ pc = "entry_return"
    /\ HiddenNoSolution(heap[1])
    /\ Has(heap[1], "text") /\ ~Has(heap[1], "puzzletext")
    /\ arg.solution /\ arg.style = "tikz"
    /\ exists_hidden
    /\ ret.text = <<"{hidden}{", "\\LARGE", " ", "word",
                    "\\imagecap{pic.png}{cap}", "}">>

\* The dict of the call has exactly one of puzzletext and solutiontext
OneSided(e) ==
    e.isdict /\ (Has(e, "puzzletext") # Has(e, "solutiontext"))

\* The call logged that only one of the two is there
LoggedOneSided == ret.stderr # <<>> /\ ret.stderr[1] = "Cannot have only one of \"puzzletext\" and \"solutiontext\""

C19_Refused ==
    /\ pc = "entry_return"
    /\ heap[1].isdict
    /\ DOMAIN heap[1].d = {"puzzletext"}
    /\ LoggedOneSided
    /\ Suppressed(ret.text, arg.style)

\* clamp(n, 0, maxSizeIndex)
Clamp(n) == IF n < 0 THEN 0 ELSE IF n > Len(sizes) - 1 THEN Len(sizes) - 1 ELSE n

\* The size delta of the entry for the view: that of the size key of the
\* text shown, or else that of size, or else none
SizeDelta(e, solution) ==
    IF ~e.isdict THEN 0
    ELSE IF Has(e, OwnSizeKey(e, solution)) /\ e.d[OwnSizeKey(e, solution)].ok
    THEN e.d[OwnSizeKey(e, solution)].n
    ELSE IF Has(e, "size") /\ e.d["size"].ok THEN e.d["size"].n
    ELSE 0

\* The call is over, or has ended in an exception, and it read sizes
SizeUsed ==
    /\ pc \in {"entry_return", "crashed"}
    /\ SizeLooked(heap[1], arg.solution)

\* C22: for every entry and every default size, the size index that
\* make_entry uses to look up the font-size scale equals
\* clamp(defaultSize + entry size delta, 0, maxSizeIndex) and therefore
\* always lies in 0..len(sizes)-1, including when the entry has no size key.
C22_Clamped ==
    SizeUsed =>
        /\ pc = "entry_return"
        /\ ret.size = << Clamp(arg.defaultsize + SizeDelta(heap[1], arg.solution)) >>
        /\ ret.size[1] \in 0..(Len(sizes) - 1)

\* With a default size within the range of sizes the index is as claimed
SizeAsCoded ==
    (SizeUsed /\ arg.defaultsize \in 0..(Len(sizes) - 1)) =>
        /\ pc = "entry_return"
        /\ ret.size = << Clamp(arg.defaultsize + SizeDelta(heap[1], arg.solution)) >>

\* A plain entry with the default size len(sizes): IndexError
C22_IndexError ==
    /\ pc = "crashed"
    /\ ~heap[1].isdict
    /\ arg.defaultsize = Len(sizes)

\* A dict without a size key and the default size -1: sizes[-1], the
\* largest size
C22_Negative ==
    /\ pc = "entry_return"
    /\ DOMAIN heap[1].d = {"text"}
    /\ arg.defaultsize = -1 /\ arg.style = "tikz"
    /\ ret.size = <<-1>>
    /\ ret.text[2] = "\\Huge"

\* The entry has the key and its value is no integer
BadSize(e, key) == e.isdict /\ Has(e, key) /\ ~e.d[key].ok

\* make_entry has asked make_entry_size for the key: for size always, for
\* puzzlesize or solutionsize when the view shows the text of its own
SizeAsked(e, solution, key) ==
    /\ e.isdict
    /\ "text" \in DOMAIN e.d
       \/ {"puzzletext", "solutiontext"} \subseteq DOMAIN e.d
    /\ key \in {"size", OwnSizeKey(e, solution)}

\* C23 as claimed: whenever a size delta of an entry (size, puzzleSize or
\* solutionSize) cannot be parsed as an integer, make_entry_size logs a
\* warning and the resulting size is defaultSize; the run continues.
C23_Original ==
    \A key \in {"size", "puzzlesize", "solutionsize"} :
        ( /\ pc \in {"entry_return", "crashed"}
          /\ SizeAsked(heap[1], arg.solution, key)
          /\ BadSize(heap[1], key)
          /\ key = OwnSizeKey(heap[1], arg.solution) ) =>
            /\ pc = "entry_return"
            /\ key \in Range(ret.warned)
            /\ ret.size # <<>> => ret.size = <<arg.defaultsize>>

\* What make_entry_size gives for the size key of the entry
PlainSize(e, defaultsize) ==
    IF Has(e, "size") /\ e.d["size"].ok
    THEN Clamp(defaultsize + e.d["size"].n)
    ELSE defaultsize

\* C23, amended: whenever a size delta of an entry cannot be parsed as an
\* integer, make_entry_size logs a warning and falls back: for size, on the
\* default size as it is given; for puzzlesize and solutionsize, on the
\* size that the entry's size key gave (the default size plus size, cut to
\* the range of sizes, or the default size when there is no usable size
\* key).  The fallback is not cut to the range of sizes: the run continues
\* when it is an index of sizes and ends in an IndexError when it is not.
C23_Fallback ==
    \A key \in {"size", "puzzlesize", "solutionsize"} :
        ( /\ pc \in {"entry_return", "crashed"}
          /\ SizeAsked(heap[1], arg.solution, key)
          /\ BadSize(heap[1], key) ) =>
            /\ key \in Range(ret.warned)
            /\ key = OwnSizeKey(heap[1], arg.solution) =>
                 LET fallback == IF key = "size" THEN arg.defaultsize
                                 ELSE PlainSize(heap[1], arg.defaultsize)
                 IN  IF SizeLooked(heap[1], arg.solution)
                     THEN IF PyIndexOk(sizes, fallback)
                          THEN pc = "entry_return" /\ ret.size = <<fallback>>
                          ELSE pc = "crashed"
                     ELSE pc = "entry_return" /\ ret.size = <<>>

\* The puzzle view of an entry with size: 2 and a puzzlesize that is no
\* number: the warning, and the size is the default size plus 2
C23_Witness ==
    /\ pc = "entry_return"
    /\ ~arg.solution /\ arg.defaultsize = 5
    /\ Has(heap[1], "puzzletext")
    /\ BadSize(heap[1], "puzzlesize")
    /\ Has(heap[1], "size") /\ heap[1].d["size"] = IntVal(2)
    /\ ret.warned = <<"puzzlesize">>
    /\ ret.size = <<7>>

\* An entry whose size is no number, with a default size in the range of
\* sizes: the warning, and the size is the default size
C23_DefaultSize ==
    /\ pc = "entry_return"
    /\ DOMAIN heap[1].d = {"text", "size"}
    /\ BadSize(heap[1], "size")
    /\ ret.warned = <<"size">>
    /\ ret.size = <<arg.defaultsize>>

\* ============================================================== dominoes
MaxPairs == 3

\* --------------------------------------------------------- check_special
\* An item of a card or domino list is a list <<id, id>> or a dict <<id>>,
\* whose object is heap[id].
IsDictItem(item) == Len(item) = 1

\* check_special, lines 157-175: some special key is present
HasSpecialKey(c) ==
    c.isdict /\ DOMAIN c.d \cap {"newpage", "newlabel", "newlabelsize"} # {}

\* Line 175: int() of a size that is no number raises
check_special_raises(c) ==
    c.isdict /\ Has(c, "newlabelsize") /\ ~c.d["newlabelsize"].ok

\* The dict as check_special leaves it: newpage forced to true (line 164),
\* a newlabel that is not a string deleted (line 171)
check_special_after(c) ==
    IF ~c.isdict THEN c
    ELSE LET keep == {k \in DOMAIN c.d :
                         ~(k = "newlabel" /\ c.d["newlabel"].none)}
         IN  Dict([k \in keep |-> IF k = "newpage" THEN TRUE ELSE c.d[k]])

\* The truth value of what check_special returns: the dict itself when it
\* is special and has no text, so an emptied dict counts as false
check_special(c) ==
    /\ HasSpecialKey(c)
    /\ ~Has(c, "text")
    /\ DOMAIN check_special_after(c).d # {}

\* The list items that are dicts
DictIds(lst) == {lst[k][1] : k \in {x \in DOMAIN lst : IsDictItem(lst[x])}}

\* The heap after check_special has been called on every dict item
Sifted(h, lst) ==
    [id \in DOMAIN h |->
        IF id \in DictIds(lst) THEN check_special_after(h[id]) ELSE h[id]]

ItemSpecial(h, item) == IsDictItem(item) /\ check_special(h[item[1]])

\* Lines 891-896: the indices of the items that are not special
RECURSIVE Presift(_, _, _)
Presift(h, lst, k) ==
    IF k >= Len(lst) THEN <<>>
    ELSE (IF ItemSpecial(h, lst[k + 1]) THEN <<>> ELSE <<k>>)
         \o Presift(h, lst, k + 1)

\* ----------------------------------------------------------------- dosub
\* A template is a text in which a placeholder <: var :> is one token
Placeholder ==
    [tok \in {"<: rownum :>", "<: colnum :>", "<: cardnum :>", "<: textL :>",
              "<: textR :>", "<: labelL :>", "<: labelR :>", "<:title:>",
              "<: rows :>", "<: columns :>", "<: cardtitle :>",
              "<: text :>", "<: label :>", "<: nosuchvar :>"} |->
        CASE tok = "<: rownum :>" -> "rownum"
          [] tok = "<: colnum :>" -> "colnum"
          [] tok = "<: cardnum :>" -> "cardnum"
          [] tok = "<: textL :>" -> "textL"
          [] tok = "<: textR :>" -> "textR"
          [] tok = "<: labelL :>" -> "labelL"
          [] tok = "<: labelR :>" -> "labelR"
          [] tok = "<:title:>" -> "title"
          [] tok = "<: rows :>" -> "rows"
          [] tok = "<: columns :>" -> "columns"
          [] tok = "<: cardtitle :>" -> "cardtitle"
          [] tok = "<: text :>" -> "text"
          [] tok = "<: label :>" -> "label"
          [] OTHER -> "nosuchvar"]

\* subtext with an unknown placeholder left in the text
SubText_kept(tok, subs) ==
    IF tok \in DOMAIN Placeholder /\ Placeholder[tok] \in DOMAIN subs
    THEN subs[Placeholder[tok]]
    ELSE <<tok>>

\* subtext (lines 102-107): the value as a string (the values of subs are
\* held as their str()); for an unknown variable the function returns None,
\* which re.sub takes as the empty string
SubText(tok, subs) ==
    IF tok \in DOMAIN Placeholder
    THEN IF Placeholder[tok] \in DOMAIN subs THEN subs[Placeholder[tok]]
         ELSE <<>>
    ELSE <<tok>>

RECURSIVE dosub(_, _)
dosub(text, subs) ==
    IF text = <<>> THEN <<>>
    ELSE SubText(Head(text), subs) \o dosub(Tail(text), subs)

\* Lines 106-107: what dosub prints to stderr, a line for each placeholder
\* whose variable is unknown
RECURSIVE dosub_stderr(_, _)
dosub_stderr(text, subs) ==
    IF text = <<>> THEN <<>>
    ELSE (IF Head(text) \in DOMAIN Placeholder
             /\ Placeholder[Head(text)] \notin DOMAIN subs
          THEN << <<"Unrecognised substitution: ", Head(text)>> >>
          ELSE <<>>)
         \o dosub_stderr(Tail(text), subs)

\* The substitution variables without an index, by name
Named(subs) ==
    [name \in {key[1] : key \in {x \in DOMAIN subs : x[2] = 0}} |->
        subs[<<name, 0>>]]

\* The blocks of the grid templates of the sample puzzle types; an item
\* names the variables of a card (text, label) and of a domino (textL,
\* textR), of which each card maker sets its own
puztemplate ==
    [begin_document |-> <<"\\begin{document}", "<:title:>", "\n">>,
     begin_page |-> <<"\\begin{page}", "\n">>,
     item |-> <<"\\card{", "<: rownum :>", "}{", "<: colnum :>", "}{",
                "<: cardnum :>", "}", "<: label :>", "<: text :>",
                "<: textL :>", "<: textR :>", "<: nosuchvar :>", "\n">>,
     end_page |-> <<"\\end{page}", "\n">>,
     end_document |-> <<"\\end{document}", "\n">>]

soltemplate ==
    [begin_document |-> <<"\\begin{document}", "<: cardtitle :>", "\n">>,
     begin_page |-> <<"\\begin{solpage}", "\n">>,
     item |-> <<"\\solcard{", "<: rownum :>", "}{", "<: colnum :>", "}{",
                "<: cardnum :>", "}", "<: label :>", "<: text :>",
                "<: textL :>", "<: textR :>", "\n">>,
     end_page |-> <<"\\end{solpage}", "\n">>,
     end_document |-> <<"\\end{document}", "\n">>]

puztemplatemd ==
    [begin_document |-> <<"| Left | Right |", "\n">>,
     item |-> <<"| ", "<: text :>", "<: textL :>", " | ", "<: textR :>",
                " |", "\n">>,
     end_document |-> <<"\n">>]

soltemplatemd ==
    [begin_document |-> <<"| No | Left | Right |", "\n">>,
     item |-> <<"| ", "<: cardnum :>", " | ", "<: text :>", "<: textL :>",
                " | ", "<: textR :>", " |", "\n">>,
     end_document |-> <<"\n">>]

\* ------------------------------------------------- make_domino_cards: data
HasOpt(opt) == opt \in DOMAIN data \cup DOMAIN layout

\* str() of an option that may be absent (None)
OptStr(opt) ==
    IF HasOpt(opt) THEN PyStr(getopt(layout, data, opt, 0)) ELSE <<"None">>

\* Lines 1532 and 1914: without flip, flippedpairs is the list pairs itself
SameList == ~getopt(layout, data, "flip", FALSE)

InsertAt(seq, k, x) == SubSeq(seq, 1, k) \o <<x>> \o SubSeq(seq, k + 1, Len(seq))

\* A dict item of the list, by kind
SpecialObject(kind) ==
    CASE kind = "newpage" -> Dict([newpage |-> TRUE])
      [] kind = "newlabel" ->
           Dict([newlabel |-> PyText(<<"L">>), newlabelsize |-> IntVal(2)])
      [] kind = "nolabel" -> Dict([newlabel |-> PyNone])
      [] kind = "text" -> Dict([text |-> <<"t">>])
      [] kind = "both" -> Dict([newpage |-> FALSE, text |-> <<"t">>])
      [] OTHER -> Dict([newlabelsize |-> NotInt])

SpecialKinds == {"none", "newpage", "newlabel", "nolabel", "text", "both",
                 "badsize"}

\* The grids of the sample layouts: rows and columns, or no grid at all
Grids == {<<1, 1>>, <<1, 2>>, <<2, 1>>, <<0, 1>>, <<>>}

\* np pairs, with a dict item after the first pair unless kind is "none"
DominoHeap(np, kind) ==
    SampleHeap(np, 0) \o (IF kind = "none" THEN <<>> ELSE <<SpecialObject(kind)>>)

DominoPairs(np, kind) ==
    IF kind = "none" THEN SamplePairs(np)
    ELSE InsertAt(SamplePairs(np), IF np = 0 THEN 0 ELSE 1, <<2 * np + 1>>)

DominoLayout(grid) ==
    [category |-> "dominoes", pairs |-> 0, typename |-> "dominoes"]
    @@ (IF grid = <<>> THEN NoKeys
        ELSE [rows |-> grid[1], columns |-> grid[2]])

DominoData(loop, numbering, titled) ==
    (IF loop = "absent" THEN NoKeys ELSE [loop |-> (loop = "true")])
    @@ (IF numbering THEN NoKeys ELSE [numberCards |-> FALSE])
    @@ (IF titled THEN [cardTitle |-> <<"Deck">>, finish |-> <<"End">>]
        ELSE NoKeys)

\* The state on entry to make_domino_cards (line 1929)
DominoEntry(np, kind, grid, loop, numbering, titled) ==
    /\ pc = "domino_begin"
    /\ layout = DominoLayout(grid)
    /\ data = DominoData(loop, numbering, titled)
    /\ heap = DominoHeap(np, kind)
    /\ pairs = DominoPairs(np, kind)
    /\ flippedpairs = DominoPairs(np, kind)
    /\ edges = <<>>
    /\ dsubs = (<<"title", 0>> :> <<"T">>)
    /\ dsubsmd = NoKeys
    /\ exists_hidden = FALSE
    /\ arg = NoKeys /\ ret = NoKeys
    /\ PiecesIdle
    /\ SeqIdle
    /\ RunIdle
    /\ CardsortIdle

\* Every deck up to the bound on a two-cell grid; the small decks also with
\* a dict item, on the other grids, unnumbered and with a card title.
DominoInit ==
    \E np \in 0..MaxPairs, kind \in SpecialKinds, grid \in Grids,
       loop \in {"absent", "true", "false"}, numbering, titled \in BOOLEAN :
        /\ \/ /\ kind = "none" /\ numbering /\ ~titled
              /\ grid \in {<<1, 2>>, <<2, 1>>}
           \/ /\ np <= 2
              /\ (kind = "none" \/ (numbering /\ ~titled /\ grid = <<1, 2>>))
              /\ (numbering \/ ~titled)
        /\ DominoEntry(np, kind, grid, loop, numbering, titled)

\* ---------------------------------------------- make_domino_cards: actions
\* Lines 846-851: the options of the deck
DominoSize == getopt(layout, data, "textSize", 5)
DominoLabelSize == getopt(layout, data, "labelSize", Max(DominoSize - 2, 0))
DominoLabel == IF "label" \in DOMAIN data THEN data["label"] ELSE <<>>
DominoLoop == getopt(layout, data, "loop", TRUE)

\* Lines 854-858
TitleSize ==
    IF "cardTitleSize" \in DOMAIN data THEN data["cardTitleSize"]
    ELSE Max(DominoLabelSize - 1, 0)

\* Line 877 with the pair appended as [start, finish]
TerminalHeap_swapped(h) ==
    h \o << Plain(getopt(layout, data, "start", <<"Start">>)),
            Plain(getopt(layout, data, "finish", <<"Finish">>)) >>

\* Line 877: the terminal pair [finish, start] as two new objects
TerminalHeap(h) ==
    h \o << Plain(getopt(layout, data, "finish", <<"Finish">>)),
            Plain(getopt(layout, data, "start", <<"Start">>)) >>

\* Lines 846-896: the options, the card title, the grid, the terminal pair
\* of a deck that does not loop, and the presift of the real pairs.  A card
\* title size outside the font sizes (IndexError) and a newlabelsize that is
\* no number (ValueError) end the run.
DominoBegin ==
    /\ pc = "domino_begin"
    /\ LET h == IF DominoLoop THEN heap ELSE TerminalHeap(heap)
           lst == IF DominoLoop THEN flippedpairs
                  ELSE Append(flippedpairs, <<Len(heap) + 1, Len(heap) + 2>>)
           titled == "cardTitle" \in DOMAIN data
           cardtitle == IF titled
                        THEN <<SizeName(TitleSize), " ">> \o data["cardTitle"]
                        ELSE <<>>
           cardtitlemd == IF titled THEN data["cardTitle"] ELSE <<>>
       IN  IF titled /\ ~PyIndexOk(sizes, TitleSize)
           THEN /\ pc' = "crashed"
                /\ UNCHANGED << heap, pairs, flippedpairs, realpairs,
                                dsubs, dsubsmd >>
           ELSE /\ dsubs' = Put(Put(Put(dsubs, <<"cardtitle", 0>>, cardtitle),
                                    <<"rows", 0>>, OptStr("rows")),
                                <<"columns", 0>>, OptStr("columns"))
                /\ dsubsmd' = Put(Put(Put(dsubsmd, <<"cardtitle", 0>>,
                                          cardtitlemd),
                                      <<"rows", 0>>, OptStr("rows")),
                                  <<"columns", 0>>, OptStr("columns"))
                /\ flippedpairs' = lst
                /\ pairs' = IF SameList THEN lst ELSE pairs
                /\ IF \E id \in DictIds(lst) : check_special_raises(h[id])
                   THEN /\ pc' = "crashed"
                        /\ heap' = h
                        /\ UNCHANGED realpairs
                   ELSE /\ pc' = "domino_shuffle"
                        /\ heap' = Sifted(h, lst)
                        /\ realpairs' = Presift(h, lst, 0)
    /\ UNCHANGED << CallVars, CardsortVars, exitmsg, random, runs, data, layout, edges, PieceVars,
                    exists_hidden, cardorder, invcardorder, cur,
                    puzbody, solbody, puzbodymd, solbodymd, faces >>

\* The ordering taken as its own inverse
Inverse_same(order) == order

\* The inverse of an ordering: invcardorder[j] = i where cardorder[i] = j
Inverse(order) ==
    [j \in DOMAIN order |->
        (CHOOSE k \in DOMAIN order : order[k] = j - 1) - 1]

\* Lines 898-920: the printing order is shuffled and the bodies are begun
DominoShuffle ==
    /\ pc = "domino_shuffle"
    /\ LET num_pairs == Len(realpairs)
           req == ShuffleRequest(num_pairs)
       IN  \E order \in Draws(random, req, Shuffles(num_pairs)) :
               /\ cardorder' = order
               /\ invcardorder' = Inverse(order)
               /\ random' = Drawn(random, req, order)
    /\ puzbody' = puztemplate.begin_document
    /\ puzbodymd' = puztemplatemd.begin_document
    /\ solbody' = soltemplate.begin_document
    /\ solbodymd' = soltemplatemd.begin_document
    /\ i' = 0
    /\ cur' = 0
    /\ faces' = <<>>
    /\ pc' = "domino_card"
    /\ UNCHANGED << CallVars, CardsortVars, exitmsg, runs, data, layout, heap, pairs, flippedpairs,
                    edges, trianglesolcard, triangleorder, trianglepuzcard,
                    squaresolcard, squareorder, squarepuzcard, trirot, sqrot,
                    dsubs, dsubsmd, exists_hidden, realpairs >>

\* Lines 964-967, the real pairs whose sides are shown at position k
\* (0-based) of n: puzi1 with the pair before in printing order instead of
\* the pair before in the solved chain
puzi1_printed(order, k, n) == order[((k - 1 + n) % n) + 1]

\* puzi1 without the wrap from pair 0 back to pair n-1
puzi1_noWrap(order, k, n) == Max(order[k + 1] - 1, 0)

puzi(order, k) == order[k + 1]
puzi1(order, k, n) == (order[k + 1] - 1 + n) % n
soli(k) == k
soli1(k, n) == (k - 1 + n) % n

\* pairs[realpairs[r]][0] and pairs[realpairs[r]][1]
QuestionOf(lst, real, r) == lst[real[r + 1] + 1][1]
AnswerOf(lst, real, r) == lst[real[r + 1] + 1][2]

\* make_entry(...) of a heap entry with the defaults of the deck
DominoEntryOf(h, id, style, solution) ==
    IF style = "tikz"
    THEN make_entry(h[id], DominoSize, "tikz", DominoLabel, DominoLabelSize,
                    DefaultBlank, solution)
    ELSE make_entry(h[id], 0, "md", DominoLabel, 0, DefaultBlank, solution)

\* The substitutions of one item
ItemSubs(row, col, num, left, right) ==
    [rownum |-> PyStr(row), colnum |-> PyStr(col), cardnum |-> num,
     textL |-> left[1], labelL |-> left[2],
     textR |-> right[1], labelR |-> right[2]]

\* Lines 956-961: the page blocks that go before item k
PageBlocks(template, k, cells) ==
    IF k % cells = 0
    THEN (IF k > 0 THEN template.end_page ELSE <<>>) \o template.begin_page
    ELSE <<>>

\* Lines 924-994: one turn of "for p in pairs".  A special item is passed
\* over.  A grid that is missing or has no cell (TypeError,
\* ZeroDivisionError) and a dict among the real pairs (KeyError) end the run.
DominoCard ==
    /\ pc = "domino_card"
    /\ cur < Len(flippedpairs)
    /\ LET n == Len(realpairs)
           rows == getopt(layout, data, "rows", 0)
           columns == getopt(layout, data, "columns", 0)
           cells == rows * columns
           shown == { puzi(cardorder, i), puzi1(cardorder, i, n),
                      soli(i), soli1(i, n) }
           numbering_cards == getopt(layout, data, "numberCards", TRUE)
       IN  IF ItemSpecial(heap, flippedpairs[cur + 1])
           THEN /\ cur' = cur + 1
                /\ UNCHANGED << pc, i, heap, exists_hidden, faces,
                                puzbody, solbody, puzbodymd, solbodymd >>
           ELSE IF \/ ~HasOpt("rows") \/ ~HasOpt("columns") \/ cells = 0
                   \/ \E r \in shown :
                         IsDictItem(flippedpairs[realpairs[r + 1] + 1])
           THEN /\ pc' = "crashed"
                /\ UNCHANGED << cur, i, heap, exists_hidden, faces,
                                puzbody, solbody, puzbodymd, solbodymd >>
           ELSE LET row == ((i % cells) \div columns) + 1
                    col == (i % columns) + 1
                    puznum == NumberText(numbering_cards, DominoSize,
                                         PyStr(i + 1))
                    solnum == NumberText(numbering_cards, DominoSize,
                                         PyStr(invcardorder[i + 1] + 1))
                    puzL == AnswerOf(flippedpairs, realpairs,
                                     puzi1(cardorder, i, n))
                    puzR == QuestionOf(flippedpairs, realpairs,
                                       puzi(cardorder, i))
                    solL == AnswerOf(flippedpairs, realpairs, soli1(i, n))
                    solR == QuestionOf(flippedpairs, realpairs, soli(i))
                    h1 == Touch(heap, {puzL})
                    h2 == Touch(h1, {puzR})
                    h3 == Touch(h2, {solL})
                    h4 == Touch(h3, {solR})
                IN  /\ puzbody' = puzbody
                         \o PageBlocks(puztemplate, i, cells)
                         \o dosub(puztemplate.item,
                                  ItemSubs(row, col, puznum,
                                      DominoEntryOf(heap, puzL, "tikz", FALSE),
                                      DominoEntryOf(h1, puzR, "tikz", FALSE)))
                    /\ puzbodymd' = puzbodymd
                         \o dosub(puztemplatemd.item,
                                  ItemSubs(row, col, puznum,
                                      DominoEntryOf(h2, puzL, "md", FALSE),
                                      DominoEntryOf(h2, puzR, "md", FALSE)))
                    /\ solbody' = solbody
                         \o PageBlocks(soltemplate, i, cells)
                         \o dosub(soltemplate.item,
                                  ItemSubs(row, col, solnum,
                                      DominoEntryOf(h2, solL, "tikz", TRUE),
                                      DominoEntryOf(h3, solR, "tikz", TRUE)))
                    /\ solbodymd' = solbodymd
                         \o dosub(soltemplatemd.item,
                                  ItemSubs(row, col, solnum,
                                      DominoEntryOf(h4, solL, "md", TRUE),
                                      DominoEntryOf(h4, solR, "md", TRUE)))
                    /\ faces' = Append(faces, [puzL |-> puzL, puzR |-> puzR,
                                               solL |-> solL, solR |-> solR,
                                               puznum |-> i + 1,
                                               solnum |->
                                                 invcardorder[i + 1] + 1])
                    /\ heap' = h4
                    /\ exists_hidden' =
                         (exists_hidden
                          \/ \E id \in {puzL, puzR, solL, solR} :
                                EntryHide(heap[id]))
                    /\ i' = i + 1
                    /\ cur' = cur + 1
                    /\ UNCHANGED pc
    /\ UNCHANGED << CallVars, CardsortVars, exitmsg, random, runs, data, layout, pairs,
                    flippedpairs, edges, trianglesolcard, triangleorder,
                    trianglepuzcard, squaresolcard, squareorder,
                    squarepuzcard, trirot, sqrot, dsubs, dsubsmd,
                    realpairs, cardorder, invcardorder >>

\* Lines 996-1011: the bodies are closed and the terminal pair is removed
DominoEnd ==
    /\ pc = "domino_card"
    /\ cur = Len(flippedpairs)
    /\ LET puz == puzbody \o puztemplate.end_page \o puztemplate.end_document
           sol == solbody \o soltemplate.end_page \o soltemplate.end_document
           puzmd == puzbodymd \o puztemplatemd.end_document
           solmd == solbodymd \o soltemplatemd.end_document
           lst == IF DominoLoop THEN flippedpairs
                  ELSE SubSeq(flippedpairs, 1, Len(flippedpairs) - 1)
       IN  /\ puzbody' = puz /\ solbody' = sol
           /\ puzbodymd' = puzmd /\ solbodymd' = solmd
           /\ dsubs' = Put(Put(dsubs, <<"puzbody", 0>>, puz),
                           <<"solbody", 0>>, sol)
           /\ dsubsmd' = Put(Put(dsubsmd, <<"puzbody", 0>>, puzmd),
                             <<"solbody", 0>>, solmd)
           /\ flippedpairs' = lst
           /\ pairs' = IF SameList THEN lst ELSE pairs
           /\ heap' = IF DominoLoop THEN heap
                      ELSE SubSeq(heap, 1, Len(heap) - 2)
    /\ pc' = "cardsort_notes"
    /\ UNCHANGED << CallVars, CardsortVars, exitmsg, random, runs, data, layout, edges, PieceVars,
                    exists_hidden, realpairs, cardorder, invcardorder, cur,
                    faces >>

\* generate_cardsort, lines 1933-1949: the notes, and the variables put into
\* the bodies
CardsortNotes ==
    /\ pc = "cardsort_notes"
    /\ LET note == getopt(layout, data, "note", <<>>)
           dosoln == IF layout["category"] = "cardsort"
                     THEN getopt(layout, data, "produceSolution", TRUE)
                     ELSE TRUE
           d1 == Put(Put(Put(dsubs, <<"hiddennotesolution", 0>>,
                   IF exists_hidden
                   THEN <<"Entries that are hidden in the puzzle are highlighted in yellow.">>
                   ELSE <<>>),
                 <<"hiddennotetable", 0>>,
                   IF exists_hidden
                   THEN <<"Entries that are hidden in the puzzle are indicated with (*).">>
                   ELSE <<>>),
                 <<"puzzlenote", 0>>, note)
           m1 == Put(Put(dsubsmd, <<"hiddennotemd", 0>>,
                   IF exists_hidden
                   THEN <<"Entries that are hidden in the puzzle are indicated with (*).">>
                   ELSE <<>>),
                 <<"puzzlenote", 0>>, note)
           d2 == Put(d1, <<"puzbody", 0>>,
                     dosub(d1[<<"puzbody", 0>>], Named(d1)))
           m2 == Put(m1, <<"puzbody", 0>>,
                     dosub(m1[<<"puzbody", 0>>], Named(m1)))
       IN  /\ dsubs' = IF dosoln
                       THEN Put(d2, <<"solbody", 0>>,
                                dosub(d2[<<"solbody", 0>>], Named(d2)))
                       ELSE d2
           /\ dsubsmd' = IF dosoln
                         THEN Put(m2, <<"solbody", 0>>,
                                  dosub(m2[<<"solbody", 0>>], Named(m2)))
                         ELSE m2
    /\ pc' = "done"
    /\ UNCHANGED << CallVars, CardsortVars, exitmsg, SeqVars, random, runs, data, layout, heap,
                    pairs, flippedpairs, edges, PieceVars, exists_hidden >>

DominoNext ==
    \/ DominoBegin
    \/ DominoShuffle
    \/ DominoCard
    \/ DominoEnd
    \/ CardsortNotes

SpecDomino == DominoInit /\ [][DominoNext]_vars

\* ====================================================== make_cardsort_cards
MaxCards == 3

\* The heap after check_special has been called on every card of the list
SiftedCards(h, ids) ==
    [id \in DOMAIN h |->
        IF id \in Range(ids) THEN check_special_after(h[id]) ELSE h[id]]

\* Lines 733-738: the indices of the cards that are not special
RECURSIVE PresiftCards(_, _, _)
PresiftCards(h, ids, k) ==
    IF k >= Len(ids) THEN <<>>
    ELSE (IF check_special(h[ids[k + 1]]) THEN <<>> ELSE <<k>>)
         \o PresiftCards(h, ids, k + 1)

\* Lines 710-716: the separations of the cards
CardSep(opt) ==
    IF HasOpt(opt) THEN getopt(layout, data, opt, <<>>)
    ELSE getopt(layout, data, "cardsep", <<"12pt">>)

\* Lines 692-738: the options, the card title, the grid, and the presift of
\* the real cards.  A card title size outside the font sizes (IndexError)
\* and a newlabelsize that is no number (ValueError) end the run.
CardsortBegin ==
    /\ pc = "cardsort_cards"
    /\ LET titled == "cardTitle" \in DOMAIN data
           cardtitle == IF titled
                        THEN <<SizeName(TitleSize), " ">> \o data["cardTitle"]
                        ELSE <<>>
           cardtitlemd == IF titled THEN data["cardTitle"] ELSE <<>>
           grid(subs) == Put(Put(subs, <<"rows", 0>>, OptStr("rows")),
                             <<"columns", 0>>, OptStr("columns"))
       IN  IF titled /\ ~PyIndexOk(sizes, TitleSize)
           THEN /\ pc' = "crashed"
                /\ UNCHANGED << heap, deck, dsubs, dsubsmd >>
           ELSE /\ dsubs' = Put(Put(grid(Put(dsubs, <<"cardtitle", 0>>,
                                             cardtitle)),
                                    <<"cardseph", 0>>,
                                    CardSep("cardsepHorizontal")),
                                <<"cardsepv", 0>>, CardSep("cardsepVertical"))
                /\ dsubsmd' = grid(Put(dsubsmd, <<"cardtitle", 0>>,
                                       cardtitlemd))
                /\ IF \E id \in Range(cards) : check_special_raises(heap[id])
                   THEN /\ pc' = "crashed"
                        /\ UNCHANGED << heap, deck >>
                   ELSE /\ pc' = "cardsort_shuffle"
                        /\ heap' = SiftedCards(heap, cards)
                        /\ deck' = [label |-> DominoLabel,
                                    labelsize |-> DominoLabelSize,
                                    pagecards |-> 0,
                                    stderr |-> 0,
                                    realcards |-> PresiftCards(heap, cards, 0)]
    /\ UNCHANGED << CallVars, cards, exitmsg, SeqVars, random, runs, data,
                    layout, pairs, flippedpairs, edges, PieceVars,
                    exists_hidden >>

\* Line 692
dosoln == getopt(layout, data, "produceSolution", TRUE)

\* Line 742
shufflecards == getopt(layout, data, "shuffleCards", FALSE)

\* Lines 740-755: the printing order, shuffled on request, and the bodies
\* begun
CardsortShuffle ==
    /\ pc = "cardsort_shuffle"
    /\ LET num_cards == Len(deck.realcards)
           req == ShuffleRequest(num_cards)
       IN  IF shufflecards
           THEN \E order \in Draws(random, req, Shuffles(num_cards)) :
                   /\ cardorder' = order
                   /\ invcardorder' = Inverse(order)
                   /\ random' = Drawn(random, req, order)
           ELSE /\ cardorder' = [k \in 1..num_cards |-> k - 1]
                /\ invcardorder' = [k \in 1..num_cards |-> k - 1]
                /\ UNCHANGED random
    /\ puzbody' = puztemplate.begin_document
    /\ puzbodymd' = puztemplatemd.begin_document
    /\ solbody' = IF dosoln THEN soltemplate.begin_document ELSE <<>>
    /\ solbodymd' = IF dosoln THEN soltemplatemd.begin_document ELSE <<>>
    /\ i' = 0
    /\ cur' = 0
    /\ faces' = <<>>
    /\ pc' = "cardsort_card"
    /\ UNCHANGED << CallVars, CardsortVars, exitmsg, runs, data, layout,
                    heap, pairs, flippedpairs, edges, trianglesolcard,
                    triangleorder, trianglepuzcard, squaresolcard,
                    squareorder, squarepuzcard, trirot, sqrot, dsubs,
                    dsubsmd, exists_hidden, realpairs >>

\* The blank of the markdown cards (lines 803 and 812)
CardBlank == <<"&nbsp;">>

\* The substitutions of one card
CardSubs(row, col, num, entry) ==
    [rownum |-> PyStr(row), colnum |-> PyStr(col), cardnum |-> num,
     text |-> entry[1], label |-> entry[2]]

\* Lines 759-770 with the page begun anew under a shuffle as well
DeckAfterSpecial_paged(d, c) ==
    [d EXCEPT !.label = IF Has(c, "newlabel") THEN c.d["newlabel"].text
                        ELSE @,
              !.labelsize = IF Has(c, "newlabelsize")
                            THEN c.d["newlabelsize"].n ELSE @,
              !.pagecards = IF Has(c, "newpage") THEN 0 ELSE @,
              !.stderr = IF Has(c, "newpage") /\ shufflecards THEN @ + 1
                         ELSE @]

\* Lines 759-770: the deck after a special card; stderr counts the messages
\* "newpage makes no sense for shuffled cards! Ignoring"
DeckAfterSpecial(d, c) ==
    [d EXCEPT !.label = IF Has(c, "newlabel") THEN c.d["newlabel"].text
                        ELSE @,
              !.labelsize = IF Has(c, "newlabelsize")
                            THEN c.d["newlabelsize"].n ELSE @,
              !.pagecards = IF Has(c, "newpage") /\ ~shufflecards THEN 0
                            ELSE @,
              !.stderr = IF Has(c, "newpage") /\ shufflecards THEN @ + 1
                         ELSE @]

\* Lines 756-818: one turn of "for c in cards".  A special card sets the
\* label, its size or the page; a grid that is missing or has no cell
\* (TypeError, ZeroDivisionError) ends the run.
CardsortCard ==
    /\ pc = "cardsort_card"
    /\ cur < Len(cards)
    /\ LET c == heap[cards[cur + 1]]
           rows == getopt(layout, data, "rows", 0)
           columns == getopt(layout, data, "columns", 0)
           cells == rows * columns
           numbering_cards == getopt(layout, data, "numberCards", TRUE)
       IN  IF check_special(c)
           THEN /\ deck' = DeckAfterSpecial(deck, c)
                /\ cur' = cur + 1
                /\ UNCHANGED << pc, i, heap, exists_hidden, faces,
                                puzbody, solbody, puzbodymd, solbodymd >>
           ELSE IF ~HasOpt("rows") \/ ~HasOpt("columns") \/ cells = 0
           THEN /\ pc' = "crashed"
                /\ UNCHANGED << deck, cur, i, heap, exists_hidden, faces,
                                puzbody, solbody, puzbodymd, solbodymd >>
           ELSE LET row == ((deck.pagecards % cells) \div columns) + 1
                    col == (deck.pagecards % columns) + 1
                    puznum == NumberText(numbering_cards, DominoSize,
                                         PyStr(i + 1))
                    solnum == NumberText(numbering_cards, DominoSize,
                                         PyStr(invcardorder[i + 1] + 1))
                    puzid == cards[deck.realcards[cardorder[i + 1] + 1] + 1]
                    solid == cards[deck.realcards[i + 1] + 1]
                    made == IF dosoln THEN {puzid, solid} ELSE {puzid}
                    tikz(id, solution) ==
                        make_entry(heap[id], DominoSize, "tikz", deck.label,
                                   deck.labelsize, DefaultBlank, solution)
                    md(id, solution) ==
                        make_entry(heap[id], 0, "md", deck.label, 0,
                                   CardBlank, solution)
                IN  /\ puzbody' = puzbody
                         \o (IF deck.pagecards = 0
                             THEN (IF i > 0 THEN puztemplate.end_page
                                   ELSE <<>>) \o puztemplate.begin_page
                             ELSE <<>>)
                         \o dosub(puztemplate.item,
                                  CardSubs(row, col, puznum,
                                           tikz(puzid, FALSE)))
                    /\ puzbodymd' = puzbodymd
                         \o dosub(puztemplatemd.item,
                                  CardSubs(row, col, puznum, md(puzid, FALSE)))
                    /\ solbody' =
                         IF dosoln
                         THEN solbody \o PageBlocks(soltemplate, i, cells)
                              \o dosub(soltemplate.item,
                                       CardSubs(row, col, solnum,
                                                tikz(solid, TRUE)))
                         ELSE solbody
                    /\ solbodymd' =
                         IF dosoln
                         THEN solbodymd
                              \o dosub(soltemplatemd.item,
                                       CardSubs(row, col, solnum,
                                                md(solid, TRUE)))
                         ELSE solbodymd
                    /\ faces' = Append(faces,
                                       [puz |-> puzid,
                                        sol |-> IF dosoln THEN solid ELSE 0,
                                        row |-> row, col |-> col,
                                        label |-> deck.label,
                                        labelsize |-> deck.labelsize,
                                        puznum |-> i + 1,
                                        solnum |-> invcardorder[i + 1] + 1])
                    /\ heap' = Touch(heap, made)
                    /\ exists_hidden' =
                         (exists_hidden
                          \/ \E id \in made : EntryHide(heap[id]))
                    /\ deck' = [deck EXCEPT !.pagecards =
                                   IF @ + 1 = cells THEN 0 ELSE @ + 1]
                    /\ i' = i + 1
                    /\ cur' = cur + 1
                    /\ UNCHANGED pc
    /\ UNCHANGED << CallVars, cards, exitmsg, random, runs, data, layout,
                    pairs, flippedpairs, edges, trianglesolcard,
                    triangleorder, trianglepuzcard, squaresolcard,
                    squareorder, squarepuzcard, trirot, sqrot, dsubs,
                    dsubsmd, realpairs, cardorder, invcardorder >>

\* Lines 820-833: the bodies are closed
CardsortEnd ==
    /\ pc = "cardsort_card"
    /\ cur = Len(cards)
    /\ LET puz == puzbody \o puztemplate.end_page \o puztemplate.end_document
           sol == solbody \o soltemplate.end_page \o soltemplate.end_document
           puzmd == puzbodymd \o puztemplatemd.end_document
           solmd == solbodymd \o soltemplatemd.end_document
       IN  /\ puzbody' = puz
           /\ puzbodymd' = puzmd
           /\ solbody' = IF dosoln THEN sol ELSE solbody
           /\ solbodymd' = IF dosoln THEN solmd ELSE solbodymd
           /\ dsubs' = IF dosoln
                       THEN Put(Put(dsubs, <<"puzbody", 0>>, puz),
                                <<"solbody", 0>>, sol)
                       ELSE Put(dsubs, <<"puzbody", 0>>, puz)
           /\ dsubsmd' = IF dosoln
                         THEN Put(Put(dsubsmd, <<"puzbody", 0>>, puzmd),
                                  <<"solbody", 0>>, solmd)
                         ELSE Put(dsubsmd, <<"puzbody", 0>>, puzmd)
    /\ pc' = "cardsort_notes"
    /\ UNCHANGED << CallVars, CardsortVars, exitmsg, random, runs, data,
                    layout, heap, pairs, flippedpairs, edges, PieceVars,
                    exists_hidden, realpairs, cardorder, invcardorder, cur,
                    faces >>

\* A card of the data file, by kind: a string, a dict with a label of its
\* own, a hidden card, a card with a text for the solution, and the special
\* cards
CardKinds == {"plain", "labelled", "hidden", "soltext", "newpage", "newlabel"}

CardObject(kind, k) ==
    CASE kind = "plain" -> Plain(Txt("c", k))
      [] kind = "labelled" -> Dict([text |-> Txt("c", k), label |-> <<"own">>])
      [] kind = "hidden" -> Dict([text |-> Txt("c", k), hidden |-> TRUE])
      [] kind = "soltext" ->
           Dict([text |-> Txt("c", k), solutiontext |-> Txt("s", k)])
      [] kind = "newpage" -> Dict([newpage |-> TRUE])
      [] OTHER -> Dict([newlabel |-> PyText(<<"L">>),
                        newlabelsize |-> IntVal(2)])

\* The decks of up to n cards, each of some kind
Decks(n) == UNION {[1..k -> CardKinds] : k \in 0..n}

CardHeap(kinds) == [k \in DOMAIN kinds |-> CardObject(kinds[k], k)]

CardList(kinds) == [k \in DOMAIN kinds |-> k]

CardsortLayout(grid) ==
    [category |-> "cardsort", cards |-> 0, typename |-> "cardsort"]
    @@ (IF grid = <<>> THEN NoKeys
        ELSE [rows |-> grid[1], columns |-> grid[2]])

CardsortData(shuffle, solution) ==
    (IF shuffle THEN [shuffleCards |-> TRUE] ELSE NoKeys)
    @@ (IF solution THEN NoKeys ELSE [produceSolution |-> FALSE])

\* The state on entry to make_cardsort_cards (line 1925)
CardsortEntry(kinds, grid, shuffle, solution) ==
    /\ pc = "cardsort_cards"
    /\ layout = CardsortLayout(grid)
    /\ data = CardsortData(shuffle, solution)
    /\ heap = CardHeap(kinds)
    /\ cards = CardList(kinds)
    /\ deck = NoKeys
    /\ exitmsg = <<>>
    /\ pairs = <<>> /\ flippedpairs = <<>> /\ edges = <<>>
    /\ dsubs = (<<"title", 0>> :> <<"T">>)
    /\ dsubsmd = NoKeys
    /\ exists_hidden = FALSE
    /\ arg = NoKeys /\ ret = NoKeys
    /\ PiecesIdle
    /\ SeqIdle
    /\ random = Unseeded /\ runs = NoRuns

\* Every deck up to the bound on a grid of one cell and on a grid of two;
\* the decks of one card also on the other grids
CardsortInit ==
    \E kinds \in Decks(MaxCards), grid \in Grids, shuffle, solution \in BOOLEAN :
        /\ grid \in {<<1, 1>>, <<1, 2>>} \/ Len(kinds) <= 1
        /\ CardsortEntry(kinds, grid, shuffle, solution)

CardsortNext ==
    \/ CardsortBegin
    \/ CardsortShuffle
    \/ CardsortCard
    \/ CardsortEnd
    \/ CardsortNotes

SpecCardsort == CardsortInit /\ [][CardsortNext]_vars

\* =================================================== the blocks of a template
MaxLines == 5

\* A template text is its lines, each a marker line ("%%% BEGIN DOCUMENT"
\* at its start is "D", BEGIN PAGE "P", BEGIN ITEM "I", END PAGE "E", END
\* DOCUMENT "F") or any other line ("x"), and whether its last line ends in
\* a newline.
LineKinds == {"D", "P", "I", "E", "F", "x"}

GridMarkers == <<"D", "P", "I", "E", "F">>

\* '^' (re.M) matches at the start of line k: a line is there, or the text
\* ends in a newline just before
LineStart(lines, eol, k) == k <= Len(lines) \/ (k = Len(lines) + 1 /\ eol)

\* The rest of the pattern, from the marker Head(marks) on, matches
\* somewhere in the lines from..: '^marker.*?^(.*?)' for each marker, the
\* dot matching newlines (re.S), and '(.*)' at the end
RECURSIVE Matchable(_, _, _, _)
Matchable(lines, eol, marks, from) ==
    IF marks = <<>> THEN LineStart(lines, eol, from)
    ELSE \E k \in from..Len(lines) :
            lines[k] = Head(marks) /\ Matchable(lines, eol, Tail(marks), k + 1)

\* The marker lines of the match re.search finds: the leftmost start, and
\* every lazy '.*?' as short as a match allows
RECURSIVE MarkerLines(_, _, _, _)
MarkerLines(lines, eol, marks, from) ==
    IF marks = <<>> THEN <<>>
    ELSE LET k == CHOOSE x \in from..Len(lines) :
                    /\ lines[x] = Head(marks)
                    /\ Matchable(lines, eol, Tail(marks), x + 1)
                    /\ \A y \in from..(x - 1) :
                          ~(lines[y] = Head(marks)
                            /\ Matchable(lines, eol, Tail(marks), y + 1))
         IN  <<k>> \o MarkerLines(lines, eol, Tail(marks), k + 1)

\* The lines a..b, by number
LinesFrom(a, b) == [k \in 1..(b - a + 1) |-> a + k - 1]

\* Lines 1776-1780: the groups of the match, each the lines after a marker
\* line up to the next marker line of the match, the last up to the end
Blocks(lines, at) ==
    [begin_document |-> LinesFrom(at[1] + 1, at[2] - 1),
     begin_page |-> LinesFrom(at[2] + 1, at[3] - 1),
     item |-> LinesFrom(at[3] + 1, at[4] - 1),
     end_page |-> LinesFrom(at[4] + 1, at[5] - 1),
     end_document |-> LinesFrom(at[5] + 1, Len(lines))]

\* The templates of up to MaxLines lines, and the five markers in order
\* with one more line put in anywhere
Templates ==
    UNION {[1..n -> LineKinds] : n \in 0..MaxLines}
    \cup {InsertAt(GridMarkers, k, kind) : k \in 0..5, kind \in LineKinds}

ExtractInit ==
    /\ pc = "extract_call"
    /\ \E lines \in Templates, eol \in BOOLEAN,
          which \in {"puzzle", "solution"} :
         /\ lines = <<>> => ~eol
         /\ arg = [lines |-> lines, eol |-> eol, which |-> which]
    /\ ret = NoKeys
    /\ exists_hidden = FALSE
    /\ RestIdle

\* generate_cardsort, lines 1770-1801: the blocks of the TeX puzzle template
\* or of the TeX solution template, or sys.exit
ExtractBlocks ==
    /\ pc = "extract_call"
    /\ IF Matchable(arg.lines, arg.eol, GridMarkers, 1)
       THEN /\ ret' = [at |-> MarkerLines(arg.lines, arg.eol, GridMarkers, 1),
                       blocks |-> Blocks(arg.lines,
                                         MarkerLines(arg.lines, arg.eol,
                                                     GridMarkers, 1))]
            /\ pc' = "extract_return"
            /\ UNCHANGED exitmsg
       ELSE /\ exitmsg' = << "TeX ", arg.which,
                             " template does not have required structure" >>
            /\ pc' = "exited"
            /\ UNCHANGED ret
    /\ UNCHANGED << arg, exists_hidden, data, layout, heap, pairs,
                    flippedpairs, edges, PieceVars, SeqVars, dsubs, dsubsmd,
                    random, runs, CardsortVars >>

SpecTemplate == ExtractInit /\ [][ExtractBlocks]_vars

\* The markers of the template, in the order of their lines
MarkersOf(lines) == SelectSeq(lines, LAMBDA kind : kind # "x")

\* The markers occur in the order given, other lines or markers between
\* them or not
RECURSIVE OccurInOrder(_, _)
OccurInOrder(lines, marks) ==
    IF marks = <<>> THEN TRUE
    ELSE \E k \in DOMAIN lines :
            /\ lines[k] = Head(marks)
            /\ OccurInOrder(SubSeq(lines, k + 1, Len(lines)), Tail(marks))

\* The names of the blocks, in the order of their markers
BlockNames ==
    <<"begin_document", "begin_page", "item", "end_page", "end_document">>

\* The blocks share no line, each is the lines from after its own marker
\* line to before the line of the next marker (the last to the end of the
\* text), and none holds a marker line
WellCut(lines, at, blocks) ==
    /\ \A a, b \in 1..5 :
          a # b => Range(blocks[BlockNames[a]])
                     \cap Range(blocks[BlockNames[b]]) = {}
    /\ \A a \in 1..5 :
          /\ lines[at[a]] = GridMarkers[a]
          /\ blocks[BlockNames[a]] =
                LinesFrom(at[a] + 1,
                          IF a < 5 THEN at[a + 1] - 1 ELSE Len(lines))
          /\ \A k \in Range(blocks[BlockNames[a]]) : lines[k] = "x"

\* C14: block extraction over a grid template: if the line-leading markers
\* BEGIN DOCUMENT, BEGIN PAGE, BEGIN ITEM, END PAGE, END DOCUMENT do not all
\* occur in that order extraction fails fatally with a diagnostic naming
\* which template is malformed; if they do occur in order it yields five
\* sections that are pairwise non-overlapping, each bounded by its own
\* marker line and the next marker, and contain no marker line.  "Do not
\* occur in that order" is read as: in no way, even with other markers
\* between; "occur in order" as: the marker lines of the template are these
\* five and no other.
C14_Extraction ==
    pc # "extract_call" =>
        /\ ~OccurInOrder(arg.lines, GridMarkers) =>
              pc = "exited" /\ Within(<<arg.which>>, exitmsg)
        /\ MarkersOf(arg.lines) = GridMarkers =>
              /\ pc = "extract_return"
              /\ WellCut(arg.lines, ret.at, ret.blocks)

\* What the pattern does: it fails when the markers occur in no way in
\* order or when nothing follows the line of the END DOCUMENT it would
\* take, not even a newline; the blocks of a template whose marker lines
\* are the five and no other are cut as C14 says.
ExtractionAsCoded ==
    pc # "extract_call" =>
        /\ ~OccurInOrder(arg.lines, GridMarkers) => pc = "exited"
        /\ pc = "exited" => Within(<<arg.which>>, exitmsg)
        /\ (MarkersOf(arg.lines) = GridMarkers /\ pc = "extract_return") =>
              WellCut(arg.lines, ret.at, ret.blocks)
        /\ (MarkersOf(arg.lines) = GridMarkers /\ pc = "exited") =>
              (arg.lines[Len(arg.lines)] = "F" /\ ~arg.eol)

\* The five marker lines in order, the last with no newline after it: the
\* template is refused
C14_NoNewline ==
    /\ pc = "exited"
    /\ arg.lines = GridMarkers
    /\ ~arg.eol
    /\ exitmsg = << "TeX ", "puzzle",
                    " template does not have required structure" >>

\* ================================================================== dosub
MaxText == 3

\* The tokens of the sample texts: a word, a newline, and placeholders
\* written with and without spaces
TextTokens ==
    {"word", "\n", "<:title:>", "<: text :>", "<: label :>",
     "<: nosuchvar :>"}

\* The values of the sample maps, as str() gives them: an empty string, a
\* word, the str() of None, and a value that reads as a placeholder
SubValues == {<<>>, <<"v">>, <<"None">>, <<"<: text :>">>}

\* The maps from some of the names to the values
SubMaps(names) == UNION {[keys -> SubValues] : keys \in SUBSET names}

DosubInit ==
    /\ pc = "dosub_call"
    /\ \E n \in 0..MaxText :
         \E text \in [1..n -> TextTokens], subs \in SubMaps({"title", "text"}) :
             arg = [text |-> text, subs |-> subs]
    /\ ret = NoKeys
    /\ exists_hidden = FALSE
    /\ RestIdle

\* Lines 100-108: one call of dosub
DosubCall ==
    /\ pc = "dosub_call"
    /\ ret' = [text |-> dosub(arg.text, arg.subs),
               stderr |-> dosub_stderr(arg.text, arg.subs)]
    /\ pc' = "dosub_return"
    /\ UNCHANGED << arg, exists_hidden, RestVars >>

SpecDosub == DosubInit /\ [][DosubCall]_vars

\* The output is cut into one piece for each token of the text, in order
RECURSIVE Pieced(_, _)
Pieced(out, pieces) ==
    IF pieces = <<>> THEN out = <<>>
    ELSE /\ Len(out) >= Len(Head(pieces))
         /\ SubSeq(out, 1, Len(Head(pieces))) = Head(pieces)
         /\ Pieced(SubSeq(out, Len(Head(pieces)) + 1, Len(out)),
                   Tail(pieces))

\* The placeholders of the text whose variable is not a key of subs
Unknown(text, subs) ==
    SelectSeq(text, LAMBDA tok : /\ tok \in DOMAIN Placeholder
                                 /\ Placeholder[tok] \notin DOMAIN subs)

MaxRun == 2

\* ------------------------------------------------------------- make_table
TableEntry(h, id) ==
    make_entry(h[id], normalsize, "table", <<>>, 0, DefaultBlank, TRUE)[1]

MdSolution(h, id) ==
    make_entry(h[id], 0, "md", <<>>, 0, DefaultBlank, TRUE)[1]

\* Lines 427-434
RECURSIVE TablePairs(_, _)
TablePairs(h, lst) ==
    IF lst = <<>> THEN <<>>
    ELSE TableEntry(h, Head(lst)[1]) \o <<"&">> \o TableEntry(h, Head(lst)[2])
         \o <<"\\\\ \\hline", "\n">> \o TablePairs(h, Tail(lst))

RECURSIVE MdPairs(_, _)
MdPairs(h, lst) ==
    IF lst = <<>> THEN <<>>
    ELSE <<"|", " ">> \o MdSolution(h, Head(lst)[1]) \o <<" |", " ">>
         \o MdSolution(h, Head(lst)[2]) \o <<" |", "\n">>
         \o MdPairs(h, Tail(lst))

\* Lines 436-441
RECURSIVE TableEdges(_, _)
TableEdges(h, lst) ==
    IF lst = <<>> THEN <<>>
    ELSE <<"\\strut ">> \o TableEntry(h, Head(lst))
         \o <<"\\\\ \\hline", "\n">> \o TableEdges(h, Tail(lst))

RECURSIVE MdEdges(_, _)
MdEdges(h, lst) ==
    IF lst = <<>> THEN <<>>
    ELSE <<"| ">> \o MdSolution(h, Head(lst)) \o <<" |", "\n">>
         \o MdEdges(h, Tail(lst))

\* Lines 452-458: '[label] ' before the content of a card that has a label
Labelled(made) ==
    (IF made[2] # <<>> THEN <<"[">> \o made[2] \o <<"] ">> ELSE <<>>)
    \o made[1]

\* Lines 445-458: the cards of the table; a special card sets the label
RECURSIVE TableCards(_, _, _)
TableCards(h, ids, label) ==
    IF ids = <<>> THEN <<>>
    ELSE LET c == check_special_after(h[Head(ids)])
         IN  IF check_special(c)
             THEN TableCards(h, Tail(ids),
                             IF Has(c, "newlabel") THEN c.d["newlabel"].text
                             ELSE label)
             ELSE Labelled(make_entry(c, normalsize, "table", label,
                                      normalsize, DefaultBlank, TRUE))
                  \o <<"\\\\ \\hline", "\n">>
                  \o TableCards(h, Tail(ids), label)

RECURSIVE MdCards(_, _, _)
MdCards(h, ids, label) ==
    IF ids = <<>> THEN <<>>
    ELSE LET c == check_special_after(h[Head(ids)])
         IN  IF check_special(c)
             THEN MdCards(h, Tail(ids),
                          IF Has(c, "newlabel") THEN c.d["newlabel"].text
                          ELSE label)
             ELSE <<"| ">>
                  \o Labelled(make_entry(c, 0, "md", label, 0, DefaultBlank,
                                         TRUE))
                  \o <<" |", "\n">> \o MdCards(h, Tail(ids), label)

\* The cards of the list that are not special
RealCards(h, ids) == {id \in Range(ids) : ~check_special(h[id])}

\* The flag left as the run found it
HiddenReset_kept(flag) == flag

\* Lines 1536-1537 and 1918-1919: exists_hidden = False
HiddenReset(flag) == FALSE

\* The entries a table of these pairs and edges formats
TableIds(prs, edg) ==
    {prs[k][1] : k \in DOMAIN prs} \cup {prs[k][2] : k \in DOMAIN prs}
    \cup Range(edg)

\* Lines 1400-1414 and 1432-1450: a table is made for the PDF table or for
\* the markdown solution, each wanted when its template and its header are
\* named
tabletex ==
    /\ getopt(layout, data, "makepdf", TRUE)
    /\ HasOpt("tableTemplateTeX") /\ HasOpt("tableHeaderTeX")

solutionmd ==
    /\ getopt(layout, data, "makemd", TRUE)
    /\ HasOpt("solutionTemplateMarkdown") /\ HasOpt("solutionHeaderMarkdown")

\* make_table (lines 418-458): the substitution variables of the tables;
\* p[0] of a dict item is a KeyError, a newlabelsize that is no number a
\* ValueError
MakeTable(wanted, to) ==
    /\ IF ~wanted
       THEN /\ pc' = to
            /\ exists_hidden' = HiddenReset(exists_hidden)
            /\ UNCHANGED << heap, dsubs, dsubsmd >>
       ELSE IF \/ \E k \in DOMAIN pairs : IsDictItem(pairs[k])
               \/ \E id \in Range(cards) : check_special_raises(heap[id])
       THEN /\ pc' = "crashed"
            /\ exists_hidden' = HiddenReset(exists_hidden)
            /\ UNCHANGED << heap, dsubs, dsubsmd >>
       ELSE LET made == TableIds(pairs, edges) \cup RealCards(heap, cards)
            IN  /\ pc' = to
                /\ exists_hidden' =
                     (HiddenReset(exists_hidden)
                      \/ \E id \in made : EntryHide(heap[id]))
                /\ heap' = Touch(SiftedCards(heap, cards), made)
                /\ dsubs' = Put(Put(Put(dsubs,
                                <<"tablepairs", 0>>, TablePairs(heap, pairs)),
                                <<"tableedges", 0>>, TableEdges(heap, edges)),
                                <<"tablecards", 0>>,
                                TableCards(heap, cards, <<>>))
                /\ dsubsmd' = Put(Put(Put(dsubsmd,
                                <<"pairs", 0>>, MdPairs(heap, pairs)),
                                <<"edges", 0>>, MdEdges(heap, edges)),
                                <<"cards", 0>>, MdCards(heap, cards, <<>>))
    /\ UNCHANGED << CallVars, CardsortVars, exitmsg, SeqVars, random, runs,
                    data, layout, pairs, flippedpairs, edges, PieceVars >>

\* ------------------------------------------ the steps before the card makers
\* Lines 1459-1466 and 1839-1846: the title, and the random source seeded
\* from it.  A title left empty in the data file is None.
SeedTitle ==
    /\ LET title == IF "title" \in DOMAIN data THEN data["title"]
                    ELSE PyText(<<>>)
       IN  /\ dsubs' = (<<"title", 0>> :>
                          IF title.none THEN <<"None">> ELSE title.text)
           /\ dsubsmd' = NoKeys
           /\ random' = Seed(random, title)
    /\ UNCHANGED << CallVars, CardsortVars, exitmsg, SeqVars, runs, data, layout, heap, pairs,
                    flippedpairs, edges, PieceVars, exists_hidden >>

\* Lines 1471-1489 and 1853-1871: sys.exit on a list of the data file that
\* the layout does not take, or of the wrong length; ListRefused_tooFew
\* lets a list that is too long pass
ListRefused_tooFew(name) ==
    IF name \in DOMAIN layout
    THEN \/ name \notin DOMAIN data
         \/ IF layout[name] = 0 THEN Len(data[name]) = 0
            ELSE Len(data[name]) < layout[name]
    ELSE name \in DOMAIN data

ListRefused(name) ==
    IF name \in DOMAIN layout
    THEN \/ name \notin DOMAIN data
         \/ IF layout[name] = 0 THEN Len(data[name]) = 0
            ELSE Len(data[name]) # layout[name]
    ELSE name \in DOMAIN data

ListRead(name) == IF name \in DOMAIN layout THEN data[name] ELSE <<>>

\* Lines 1491-1510: the edges cut or filled with blanks to the number of
\* the layout, as ids; the blanks are new objects after the heap h
EdgesGiven == IF "edges" \in DOMAIN data THEN data["edges"] ELSE <<>>

\* EdgesRead with the list taken as the data file gives it
EdgesRead_asGiven(h) == EdgesGiven

EdgesRead(h) ==
    IF "edges" \notin DOMAIN layout THEN <<>>
    ELSE IF Len(EdgesGiven) > layout["edges"]
    THEN SubSeq(EdgesGiven, 1, layout["edges"])
    ELSE EdgesGiven
         \o [k \in 1..(layout["edges"] - Len(EdgesGiven)) |-> Len(h) + k]

BlankEdges(h) ==
    IF "edges" \notin DOMAIN layout \/ Len(EdgesGiven) > layout["edges"]
    THEN <<>>
    ELSE [k \in 1..(layout["edges"] - Len(EdgesGiven)) |-> Plain(<<>>)]

\* The one item of a list, as the messages name it
OneOf(name) == IF name = "pairs" THEN "pair" ELSE "card"

\* The messages of sys.exit: a list that is wanted and missing, empty or of
\* the wrong length (lines 1476-1486, 1858-1868, 1879-1889), and a list that
\* the puzzle type does not take (lines 1488, 1512, 1870, 1891)
NotAccepted(name) ==
    << "Puzzle type ", layout["typename"], " does not accept ", name,
       " in data file" >>

ListMessage(name) ==
    IF name \notin DOMAIN layout THEN NotAccepted(name)
    ELSE IF name \notin DOMAIN data
    THEN << "Puzzle type ", layout["typename"], " requires ", name,
            " in data file" >>
    ELSE IF layout[name] = 0
    THEN << "Puzzle type ", layout["typename"], " needs at least one ",
            OneOf(name) >>
    ELSE << "Puzzle type ", layout["typename"], " needs exactly " >>
         \o PyStr(layout[name]) \o << " ", name >>

\* generate_jigsaw, lines 1471-1515
JigsawRead ==
    /\ pc = "jigsaw_read"
    /\ IF \/ ListRefused("pairs")
          \/ ("edges" \notin DOMAIN layout /\ "edges" \in DOMAIN data)
          \/ "cards" \in DOMAIN data
       THEN /\ pc' = "exited"
            /\ exitmsg' = IF ListRefused("pairs") THEN ListMessage("pairs")
                          ELSE IF "edges" \notin DOMAIN layout
                                  /\ "edges" \in DOMAIN data
                          THEN NotAccepted("edges")
                          ELSE NotAccepted("cards")
            /\ UNCHANGED << pairs, edges, heap >>
       ELSE /\ pc' = "jigsaw_shuffle_pairs"
            /\ pairs' = ListRead("pairs")
            /\ edges' = EdgesRead(heap)
            /\ heap' = heap \o BlankEdges(heap)
            /\ UNCHANGED exitmsg
    /\ UNCHANGED << CallVars, CardsortVars, SeqVars, random, runs, data,
                    layout, flippedpairs, PieceVars, dsubs, dsubsmd,
                    exists_hidden >>

\* generate_cardsort, lines 1853-1896
CardsortRead ==
    /\ pc = "cardsort_read"
    /\ IF \/ ListRefused("pairs")
          \/ "edges" \in DOMAIN data
          \/ ListRefused("cards")
       THEN /\ pc' = "exited"
            /\ exitmsg' = IF ListRefused("pairs") THEN ListMessage("pairs")
                          ELSE IF "edges" \in DOMAIN data
                          THEN NotAccepted("edges")
                          ELSE ListMessage("cards")
            /\ UNCHANGED << pairs, edges, cards >>
       ELSE /\ pc' = "cardsort_shuffle_pairs"
            /\ pairs' = ListRead("pairs")
            /\ edges' = <<>>
            /\ cards' = ListRead("cards")
            /\ UNCHANGED exitmsg
    /\ UNCHANGED << CallVars, deck, SeqVars, random, runs, data, layout, heap,
                    flippedpairs, PieceVars, dsubs, dsubsmd, exists_hidden >>

\* Lines 1517-1518 and 1902-1903: random.shuffle(pairs)
ShufflePairs ==
    /\ IF getopt(layout, data, "shufflePairs", FALSE)
       THEN LET req == ShuffleRequest(Len(pairs))
            IN  \E order \in Draws(random, req, Shuffles(Len(pairs))) :
                    /\ pairs' = Shuffled(pairs, order)
                    /\ random' = Drawn(random, req, order)
       ELSE UNCHANGED << pairs, random >>
    /\ UNCHANGED << CallVars, CardsortVars, exitmsg, SeqVars, runs, data, layout, heap,
                    flippedpairs, edges, PieceVars, dsubs, dsubsmd,
                    exists_hidden >>

\* generate_jigsaw, lines 1519-1520: random.shuffle(edges)
JigsawShuffleEdges ==
    /\ pc = "jigsaw_shuffle_edges"
    /\ IF getopt(layout, data, "shuffleEdges", FALSE)
       THEN LET req == ShuffleRequest(Len(edges))
            IN  \E order \in Draws(random, req, Shuffles(Len(edges))) :
                    /\ edges' = Shuffled(edges, order)
                    /\ random' = Drawn(random, req, order)
       ELSE UNCHANGED << edges, random >>
    /\ pc' = "jigsaw_flip"
    /\ UNCHANGED << CallVars, CardsortVars, exitmsg, SeqVars, runs, data, layout, heap, pairs,
                    flippedpairs, PieceVars, dsubs, dsubsmd, exists_hidden >>

\* The flip drawn as a number
ChoiceRequest_randint == Request("randint", 0, 1)

\* random.choice([True, False])
ChoiceRequest == Request("choice", 0, 2)

\* Lines 1524-1532 and 1906-1914: without flip the list itself; with flip
\* one turn of "for p in pairs", a draw for each pair (p[1] of a dict item
\* is a KeyError)
FlipPairs(to) ==
    /\ IF ~getopt(layout, data, "flip", FALSE)
       THEN /\ flippedpairs' = pairs
            /\ pc' = to
            /\ UNCHANGED << cur, random >>
       ELSE IF cur = Len(pairs)
       THEN /\ pc' = to
            /\ cur' = 0
            /\ UNCHANGED << flippedpairs, random >>
       ELSE IF IsDictItem(pairs[cur + 1])
       THEN /\ pc' = "crashed"
            /\ UNCHANGED << flippedpairs, cur, random >>
       ELSE \E draw \in Draws(random, ChoiceRequest, {<<0>>, <<1>>}) :
               LET p == pairs[cur + 1]
               IN  /\ flippedpairs' =
                        Append(flippedpairs,
                               IF draw[1] = 0 THEN <<p[2], p[1]>> ELSE p)
                   /\ random' = Drawn(random, ChoiceRequest, draw)
                   /\ cur' = cur + 1
                   /\ UNCHANGED pc
    /\ UNCHANGED << CallVars, CardsortVars, exitmsg, runs, data, layout, heap, pairs, edges,
                    PieceVars, dsubs, dsubsmd, exists_hidden, realpairs,
                    cardorder, invcardorder, puzbody, solbody, puzbodymd,
                    solbodymd, faces >>

JigsawSeed ==
    /\ pc = "jigsaw_seed"
    /\ SeedTitle
    /\ pc' = "jigsaw_read"

JigsawShufflePairs ==
    /\ pc = "jigsaw_shuffle_pairs"
    /\ ShufflePairs
    /\ pc' = "jigsaw_shuffle_edges"

JigsawFlip ==
    /\ pc = "jigsaw_flip"
    /\ FlipPairs("jigsaw_table")

\* Lines 1536-1540
JigsawTable ==
    /\ pc = "jigsaw_table"
    /\ MakeTable(tabletex \/ solutionmd, "jigsaw_triangles")

CardsortSeed ==
    /\ pc = "cardsort_seed"
    /\ SeedTitle
    /\ pc' = "cardsort_read"

CardsortShufflePairs ==
    /\ pc = "cardsort_shuffle_pairs"
    /\ ShufflePairs
    /\ pc' = "cardsort_flip"

CardsortFlip ==
    /\ pc = "cardsort_flip"
    /\ FlipPairs("cardsort_table")

\* Lines 1918-1931: the table, then the card maker of the category
CardsortTable ==
    /\ pc = "cardsort_table"
    /\ MakeTable(tabletex,
                 IF layout["category"] = "cardsort" THEN "cardsort_cards"
                 ELSE "domino_begin")

\* =============================================================== runlatex
\* A text of the typesetting tool is the sequence of its characters.
\* str.lower() of a character, as re.I folds the letters of the pattern
Lower(ch) ==
    CASE ch = "R" -> "r"
      [] ch = "E" -> "e"
      [] ch = "U" -> "u"
      [] ch = "N" -> "n"
      [] OTHER -> ch

\* Line 1014: the pattern 'rerun ' of rerun_regex
RerunPattern == <<"r", "e", "r", "u", "n", " ">>

\* rerun_regex.search(output), lines 1014 and 1061: the pattern stands
\* somewhere in the output, the case of the letters aside
rerun_regex(output) ==
    \E k \in 0..(Len(output) - Len(RerunPattern)) :
        \A j \in 1..Len(RerunPattern) : Lower(output[k + j]) = RerunPattern[j]

\* Line 1048: range(4)
LatexTurns == 4

\* Lines 1048-1062 with a loop of one turn more
LatexAgain_five(count, outcome) ==
    /\ count + 1 < LatexTurns + 1
    /\ outcome.status = 0
    /\ rerun_regex(outcome.output)

\* Lines 1048-1062: after turn count (from 0) with the given outcome the
\* loop takes another turn
LatexAgain(count, outcome) ==
    /\ count + 1 < LatexTurns
    /\ outcome.status = 0
    /\ rerun_regex(outcome.output)

\* What the typesetting tool prints: nothing of a rerun, a rerun hint in
\* mixed case and in capitals, the word with no space after it, and the
\* word at the end of a line
LatexOutputs ==
    { <<"o", "k">>,
      <<"R", "e", "r", "u", "n", " ", "t", "o">>,
      <<"(", "R", "E", "R", "U", "N", " ", ")">>,
      <<"r", "e", "r", "u", "n">>,
      <<"r", "e", "r", "u", "n", "\n">> }

\* The exit statuses of the tool
LatexStatuses == {0, 1}

\* The files that cleanup removes, line 1067
LatexJunk == {"aux", "log", "tex", "ind", "idx", "out", "tex.filter"}

\* The texfilter option: not set, set to a program that is in no filter
\* directory, to one that succeeds, to one that exits with a nonzero status
LatexFilters == {"unset", "missing", "works", "fails"}

\* os.replace(old, new) and a file written, on the set of the files there are
Moved(files, old, new) == (files \ {old}) \cup {new}
Written(files, name) == files \cup {name}

\* runlatex is called on the written document fn (the file "tex")
LatexInit ==
    /\ pc = "latex_filter"
    /\ \E texfilter \in LatexFilters, clean \in BOOLEAN :
         arg = [texfilter |-> texfilter, clean |-> clean]
    /\ ret = [runs |-> <<>>, error |-> FALSE, files |-> {"tex"},
              stderr |-> <<>>]
    /\ exists_hidden = FALSE
    /\ RestIdle

\* Lines 1019-1046: the filter, if one is asked for
LatexFilter ==
    /\ pc = "latex_filter"
    /\ ret' =
         CASE arg.texfilter = "unset" -> ret
           [] arg.texfilter = "missing" ->
                [ret EXCEPT !.stderr = Append(@, "filter not found")]
           [] arg.texfilter = "works" ->
                [ret EXCEPT !.files = Written(Moved(@, "tex", "tex.filter"),
                                              "tex")]
           [] OTHER ->
                [ret EXCEPT !.stderr = Append(@, "filter failed"),
                            !.files = Moved(Moved(@, "tex", "tex.filter"),
                                            "tex.filter", "tex"),
                            !.error = TRUE]
    /\ pc' = "latex_run"
    /\ UNCHANGED << arg, exists_hidden, RestVars >>

\* Lines 1048-1062: one turn of the loop; the tool exits with some status
\* and prints some output
LatexRun ==
    /\ pc = "latex_run"
    /\ \E status \in LatexStatuses, output \in LatexOutputs :
         LET outcome == [status |-> status, output |-> output]
             count == Len(ret.runs)
         IN  /\ ret' = [ret EXCEPT
                          !.runs = Append(@, outcome),
                          !.files = @ \cup {"aux", "log"}
                                      \cup (IF status = 0 THEN {"pdf"} ELSE {}),
                          !.stderr = IF status # 0
                                     THEN Append(@, "latex failed") ELSE @,
                          !.error = @ \/ status # 0]
             /\ pc' = IF LatexAgain(count, outcome) THEN "latex_run"
                      ELSE "latex_clean"
    /\ UNCHANGED << arg, exists_hidden, RestVars >>

\* Lines 1064-1071: cleanup
LatexClean ==
    /\ pc = "latex_clean"
    /\ ret' = IF ~ret.error /\ arg.clean
              THEN [ret EXCEPT !.files = @ \ LatexJunk]
              ELSE ret
    /\ pc' = "latex_done"
    /\ UNCHANGED << arg, exists_hidden, RestVars >>

LatexNext ==
    \/ LatexFilter
    \/ LatexRun
    \/ LatexClean

SpecLatex == LatexInit /\ [][LatexNext]_vars

\* The positions of the run inside runlatex
InLatex == pc \in {"latex_filter", "latex_run", "latex_clean", "latex_done"}

\* The output holds "rerun " in some case of its letters
HintsRerun(output) ==
    \E k \in 1..Len(output) :
        /\ k + 5 <= Len(output)
        /\ output[k] \in {"r", "R"}
        /\ output[k + 1] \in {"e", "E"}
        /\ output[k + 2] \in {"r", "R"}
        /\ output[k + 3] \in {"u", "U"}
        /\ output[k + 4] \in {"n", "N"}
        /\ output[k + 5] = " "

\* C27: for each generated document runlatex invokes the typesetting tool
\* at least once and at most 4 times; invocation k+1 happens only if
\* invocation k exited with status zero and its output contained 'rerun '
\* (case-insensitive); a nonzero exit stops further invocations, is reported
\* as a warning rather than aborting the run, and in that case the written
\* source document is not removed by cleanup.
C27_Runlatex ==
    InLatex =>
        /\ Len(ret.runs) <= 4
        /\ pc \in {"latex_clean", "latex_done"} => Len(ret.runs) >= 1
        /\ \A k \in 1..(Len(ret.runs) - 1) :
              /\ ret.runs[k].status = 0
              /\ HintsRerun(ret.runs[k].output)
        /\ \A k \in 1..Len(ret.runs) :
              ret.runs[k].status # 0 =>
                 /\ k = Len(ret.runs)
                 /\ pc \in {"latex_clean", "latex_done"}
                 /\ \E j \in 1..Len(ret.stderr) : ret.stderr[j] = "latex failed"
                 /\ "tex" \in ret.files

\* The tool was run four times, each output but the last asking for a
\* rerun, and the cleanup has removed the source
C27_Witness ==
    /\ pc = "latex_done"
    /\ Len(ret.runs) = 4
    /\ ret.runs[4].status = 0
    /\ HintsRerun(ret.runs[4].output)
    /\ "tex" \notin ret.files

\* The second run of the tool has failed: a warning, no third run, and the
\* source is kept though cleanup is on
C27_Failed ==
    /\ pc = "latex_done"
    /\ arg.clean
    /\ Len(ret.runs) = 2
    /\ ret.runs[2].status = 1
    /\ ret.stderr = <<"latex failed">>
    /\ "tex" \in ret.files

\* ------------------------------------------------------- claims: dominoes
\* The two sides of solved pair r (0-based) of the deck: the r-th item of
\* the list that is a pair
SolvedQuestion(r) == flippedpairs[realpairs[r + 1] + 1][1]
SolvedAnswer(r) == flippedpairs[realpairs[r + 1] + 1][2]

\* The puzzle view of an entry in the markdown body
MdFace(id) ==
    make_entry(heap[id], 0, "md", DominoLabel, 0, DefaultBlank, FALSE)[1]

\* The markdown puzzle body whose k-th row has the faces left[k], right[k]
RECURSIVE MdDeck(_, _)
MdDeck(left, right) ==
    IF left = <<>> THEN <<>>
    ELSE <<"| ">> \o MdFace(Head(left)) \o <<" | ">> \o MdFace(Head(right))
         \o <<" |", "\n">> \o MdDeck(Tail(left), Tail(right))

\* The deck loops, every item that is not special is a pair, and the
\* positions 0..Len(faces)-1 have been printed
LoopingDeck ==
    /\ DominoLoop
    /\ faces # <<>>
    /\ \A r \in DOMAIN realpairs : ~IsDictItem(flippedpairs[realpairs[r] + 1])

\* C10 as claimed: in a looping domino deck of n pairs with shuffle order
\* cardorder, for every puzzle position i the right face is the question
\* side of solved pair cardorder[i] and the left face is the answer side of
\* solved pair cardorder[(i-1+n) mod n].
C10_Original ==
    LoopingDeck =>
        LET n == Len(realpairs)
            left == [k \in DOMAIN faces |->
                        SolvedAnswer(cardorder[((k - 2 + n) % n) + 1])]
            right == [k \in DOMAIN faces |-> SolvedQuestion(cardorder[k])]
        IN  /\ \A k \in DOMAIN faces :
                 faces[k].puzR = right[k] /\ faces[k].puzL = left[k]
            /\ pc = "domino_card" =>
                 puzbodymd = puztemplatemd.begin_document \o MdDeck(left, right)

\* C10, amended: in a looping domino deck of n pairs with shuffle order
\* cardorder, for every puzzle position i the right face is the question
\* side of solved pair cardorder[i] and the left face is the answer side of
\* solved pair (cardorder[i] - 1 + n) mod n, the pair before it in the solved
\* chain; the markdown puzzle body shows these faces row by row.
C10_DominoFaces ==
    LoopingDeck =>
        LET n == Len(realpairs)
            left == [k \in DOMAIN faces |->
                        SolvedAnswer((cardorder[k] - 1 + n) % n)]
            right == [k \in DOMAIN faces |-> SolvedQuestion(cardorder[k])]
        IN  /\ \A k \in DOMAIN faces :
                 faces[k].puzR = right[k] /\ faces[k].puzL = left[k]
            /\ pc = "domino_card" =>
                 puzbodymd = puztemplatemd.begin_document \o MdDeck(left, right)

\* Three pairs printed in the order 1, 0, 2: position 0 shows the answer of
\* pair 0 and the question of pair 1, not the answer of pair cardorder[2]
C10_Witness ==
    /\ pc = "domino_card"
    /\ LoopingDeck
    /\ realpairs = <<0, 1, 2>>
    /\ cardorder = <<1, 0, 2>>
    /\ Len(faces) = 3
    /\ faces[1].puzL = SolvedAnswer(0) /\ faces[1].puzR = SolvedQuestion(1)
    /\ faces[1].puzL # SolvedAnswer(2)
    /\ puzbodymd = << "| Left | Right |", "\n",
                      "| ", "a", "1", " | ", "(BLANK)", " |", "\n",
                      "| ", "a", "3", " | ", "q", "1", " |", "\n",
                      "| ", "a", "2", " | ", "?", " |", "\n" >>

\* The loop "for p in pairs" is over and every item that is not special is
\* a pair
WalkedDeck ==
    /\ pc = "domino_card"
    /\ cur = Len(flippedpairs)
    /\ Len(realpairs) >= 1
    /\ \A r \in DOMAIN realpairs : ~IsDictItem(flippedpairs[realpairs[r] + 1])

\* The positions at which the face of the given side shows the entry id
ShownAt(side, id) == {k \in DOMAIN faces : faces[k][side] = id}

\* The printing order of the deck has been drawn
OrderDrawn == pc \in {"domino_card", "cardsort_notes", "done"}

\* The order 0, 1, ..., n-1
IdentityOrder(n) == [k \in 1..n |-> k - 1]

Category ==
    IF "category" \in DOMAIN layout THEN layout["category"] ELSE "jigsaw"

\* The lists of pairs that make_domino_cards is given
EntryLists ==
    {DominoPairs(np, kind) : np \in 0..MaxPairs, kind \in SpecialKinds}

\* make_domino_cards is entered with the list lst for a deck that does not
\* loop
EnteredWith(lst) ==
    /\ Category = "dominoes"
    /\ pc = "domino_begin"
    /\ ~DominoLoop
    /\ flippedpairs = lst

\* The loop "for p in pairs" of a deck that does not loop is over
LoopEnded ==
    /\ Category = "dominoes"
    /\ pc = "domino_card"
    /\ cur = Len(flippedpairs)
    /\ ~DominoLoop

\* make_domino_cards has returned
DominoesMade == Category = "dominoes" /\ pc \in {"cardsort_notes", "done"}

\* The dominoes whose face of the given side is the plain text t
FacesOf(side, t) == {k \in DOMAIN faces : heap[faces[k][side]] = Plain(t)}

StartText == getopt(layout, data, "start", <<"Start">>)
FinishText == getopt(layout, data, "finish", <<"Finish">>)

\* The list is lst and the pair [finish, start], and one domino of the
\* puzzle and one of the solution has the start text on the left and the
\* finish text on the right
TerminalShown(lst) ==
    /\ Len(flippedpairs) = Len(lst) + 1
    /\ SubSeq(flippedpairs, 1, Len(lst)) = lst
    /\ LET last == flippedpairs[Len(flippedpairs)]
       IN  /\ Len(last) = 2
           /\ heap[last[1]] = Plain(FinishText)
           /\ heap[last[2]] = Plain(StartText)
    /\ Len(faces) = Len(realpairs)
    /\ Cardinality(FacesOf("puzL", StartText)) = 1
    /\ Cardinality(FacesOf("puzR", FinishText)) = 1
    /\ Cardinality(FacesOf("solL", StartText)) = 1
    /\ Cardinality(FacesOf("solR", FinishText)) = 1

\* C28: for a non-looping domino deck, make_domino_cards appends exactly one
\* synthetic terminal pair [finish, start] before sequencing and removes it
\* after sequencing, so the pairs list on return has the same length and
\* contents as on entry; among the emitted dominoes exactly one has the
\* start text as its left face and exactly one has the finish text as its
\* right face.
C28_TerminalPair ==
    \A lst \in EntryLists :
        [](EnteredWith(lst)
             => [](/\ LoopEnded => TerminalShown(lst)
                   /\ DominoesMade => flippedpairs = lst /\ pairs = lst))

\* A deck of two pairs that does not loop has been made: the list has its
\* two pairs again, and three dominoes were printed
C28_Witness ==
    /\ DominoesMade
    /\ ~DominoLoop
    /\ flippedpairs = SamplePairs(2)
    /\ Len(faces) = 3
    /\ Len(realpairs) = 3

\* The loop of such a deck is over, the pair [finish, start] still in the
\* list
C28_Appended ==
    /\ LoopEnded
    /\ TerminalShown(SamplePairs(2))

\* C11: in make_domino_cards, over all n puzzle positions (and likewise
\* over all n solution positions) every pair's question side appears as a
\* right face exactly once and every pair's answer side appears as a left
\* face exactly once, for every n >= 1 and every shuffle order.
C11_EachSideOnce ==
    WalkedDeck =>
        /\ Len(faces) = Len(realpairs)
        /\ \A r \in 0..(Len(realpairs) - 1) :
             /\ Cardinality(ShownAt("puzR", SolvedQuestion(r))) = 1
             /\ Cardinality(ShownAt("puzL", SolvedAnswer(r))) = 1
             /\ Cardinality(ShownAt("solR", SolvedQuestion(r))) = 1
             /\ Cardinality(ShownAt("solL", SolvedAnswer(r))) = 1

\* A deck of three pairs and the terminal pair, printed in an order that is
\* not the solved order, has been walked
C11_Witness ==
    /\ WalkedDeck
    /\ ~DominoLoop
    /\ Len(realpairs) = MaxPairs + 1
    /\ cardorder[1] # 0
    /\ Len(faces) = MaxPairs + 1

\* ------------------------------------------------------ two runs of a file
\* The keys that make the table wanted
TableKeys ==
    [tableTemplateTeX |-> "table.tex", tableHeaderTeX |-> "header.tex"]

\* A jigsaw layout of t triangles and s squares with its lists
JigsawLayout(t, s, table) ==
    SampleLayout(TRUE, t, s > 0, s, "ok")
    @@ [category |-> "jigsaw", typename |-> "sample",
        pairs |-> t + s, edges |-> t + s + 1]
    @@ (IF table THEN TableKeys ELSE NoKeys)

\* The title of the data file: absent, a string, or left empty (null)
TitleKinds == {"absent", "text", "null"}

TitleOf(kind) ==
    CASE kind = "absent" -> NoKeys
      [] kind = "text" -> [title |-> PyText(<<"T">>)]
      [] OTHER -> [title |-> PyNone]

FlagsOf(shufflePairs, shuffleEdges, flip) ==
    (IF shufflePairs THEN [shufflePairs |-> TRUE] ELSE NoKeys)
    @@ (IF shuffleEdges THEN [shuffleEdges |-> TRUE] ELSE NoKeys)
    @@ (IF flip THEN [flip |-> TRUE] ELSE NoKeys)

\* The first position of a run, by the category of the layout (lines
\* 1338-1349)
FirstPc == IF layout["category"] = "jigsaw" THEN "jigsaw_seed"
           ELSE "cardsort_seed"

\* generate is called on a data file, nothing read yet; the process is
\* new, or it has called generate before (the docstring of generate, lines
\* 1308-1310) and the flag is as that run left it
RunEntry(lay, dat, h) ==
    /\ layout = lay
    /\ data = dat
    /\ heap = h
    /\ pc = FirstPc
    /\ pairs = <<>> /\ flippedpairs = <<>> /\ edges = <<>>
    /\ dsubs = NoKeys /\ dsubsmd = NoKeys
    /\ exists_hidden \in BOOLEAN
    /\ arg = NoKeys /\ ret = NoKeys
    /\ PiecesIdle
    /\ SeqIdle
    /\ random = Unseeded
    /\ runs = [run |-> 1, heap |-> h, out |-> NoKeys]
    /\ CardsortIdle

\* A jigsaw of np pairs and ne edges for a layout of t triangles and s
\* squares
JigsawRun(t, s, np, ne, title, shufflePairs, shuffleEdges, flip, table) ==
    RunEntry(JigsawLayout(t, s, table),
             TitleOf(title) @@ FlagsOf(shufflePairs, shuffleEdges, flip)
                 @@ [pairs |-> SamplePairs(np)]
                 @@ (IF ne = 0 THEN NoKeys
                     ELSE [edges |-> SampleEdges(np, ne)]),
             SampleHeap(np, ne))

\* A domino deck of np pairs
DominoRun(np, kind, loop, title, shufflePairs, flip, table) ==
    RunEntry(DominoLayout(<<1, 2>>) @@ (IF table THEN TableKeys ELSE NoKeys),
             TitleOf(title) @@ FlagsOf(shufflePairs, FALSE, flip)
                 @@ DominoData(loop, TRUE, FALSE)
                 @@ [pairs |-> DominoPairs(np, kind)],
             DominoHeap(np, kind))

\* A card sort of the cards kinds for a layout that needs so many cards (0:
\* any number but none); given tells whether the data file has the key
CardsortRun(kinds, need, given, title, shuffle, table) ==
    RunEntry([cards |-> need] @@ CardsortLayout(<<1, 2>>)
                 @@ (IF table THEN TableKeys ELSE NoKeys),
             TitleOf(title) @@ CardsortData(shuffle, TRUE)
                 @@ (IF given THEN [cards |-> CardList(kinds)] ELSE NoKeys),
             CardHeap(kinds))

\* Jigsaws of up to MaxRun pieces and decks of up to MaxRun pairs with a
\* title or none; the one-piece jigsaws and the decks of at most two pairs
\* also with a null title, with every flag, with too few or too many pairs,
\* and with too few or too many edges; card sorts of up to MaxRun cards for
\* a layout that takes any number or exactly MaxRun.
RunInit ==
    \/ \E t \in 0..MaxRun, s \in 0..MaxRun, dp \in {-1, 0, 1},
          de \in {-1, 0, 1},
          title \in TitleKinds,
          shufflePairs, shuffleEdges, flip, table \in BOOLEAN :
        /\ t + s >= 1 /\ t + s <= MaxRun
        /\ t + s - dp >= 0
        /\ \/ /\ t + s = 1
              /\ (dp = 0 /\ de = 0) \/ (title = "text" /\ table)
           \/ /\ title # "null" /\ dp = 0 /\ de = 0 /\ table
              /\ ~shuffleEdges /\ ~flip
        /\ JigsawRun(t, s, t + s - dp, t + s + 1 + de, title,
                     shufflePairs, shuffleEdges, flip, table)
    \/ \E np \in 0..MaxRun, kind \in {"none", "newpage", "nolabel", "both"},
          loop \in {"true", "false"}, title \in TitleKinds,
          shufflePairs, flip, table \in BOOLEAN :
        /\ \/ /\ np <= 1
              /\ kind = "none" \/ (title = "text" /\ loop = "true")
           \/ /\ title # "null" /\ kind = "none" /\ ~flip /\ ~table
        /\ DominoRun(np, kind, loop, title, shufflePairs, flip, table)
    \/ \E kinds \in Decks(MaxRun), need \in {0, MaxRun}, given \in BOOLEAN,
          title \in {"absent", "text"}, shuffle, table \in BOOLEAN :
        /\ given \/ kinds = <<>>
        /\ CardsortRun(kinds, need, given, title, shuffle, table)

\* What a run leaves: the orders, the flips, the rotations and the
\* substitution variables of the outputs
Observed ==
    [pairs |-> pairs, edges |-> edges, flippedpairs |-> flippedpairs,
     triangleorder |-> triangleorder, trirot |-> trirot,
     squareorder |-> squareorder, sqrot |-> sqrot,
     cardorder |-> cardorder, dsubs |-> dsubs, dsubsmd |-> dsubsmd]

\* The program is run again on the same data file: a new process, whose
\* random module is as the interpreter starts it and whose data is as
\* loaded from the file
Rerun ==
    /\ pc = "done"
    /\ runs.run = 1
    /\ runs' = [runs EXCEPT !.run = 2, !.out = Observed]
    /\ random' = [random EXCEPT !.seeded = FALSE, !.n = 0]
    /\ heap' = runs.heap
    /\ pc' = FirstPc
    /\ pairs' = <<>> /\ flippedpairs' = <<>> /\ edges' = <<>>
    /\ dsubs' = NoKeys /\ dsubsmd' = NoKeys
    /\ exists_hidden' = FALSE
    /\ trianglesolcard' = <<>> /\ triangleorder' = <<>>
    /\ trianglepuzcard' = <<>>
    /\ squaresolcard' = <<>> /\ squareorder' = <<>> /\ squarepuzcard' = <<>>
    /\ i' = 0 /\ trirot' = <<>> /\ sqrot' = <<>>
    /\ realpairs' = <<>> /\ cardorder' = <<>> /\ invcardorder' = <<>>
    /\ cur' = 0
    /\ puzbody' = <<>> /\ solbody' = <<>>
    /\ puzbodymd' = <<>> /\ solbodymd' = <<>>
    /\ faces' = <<>>
    /\ cards' = <<>> /\ deck' = NoKeys /\ exitmsg' = <<>>
    /\ UNCHANGED << CallVars, data, layout >>

RunNext ==
    \/ JigsawSeed
    \/ JigsawRead
    \/ JigsawShufflePairs
    \/ JigsawShuffleEdges
    \/ JigsawFlip
    \/ JigsawTable
    \/ Next
    \/ CardsortSeed
    \/ CardsortRead
    \/ CardsortShufflePairs
    \/ CardsortFlip
    \/ CardsortTable
    \/ CardsortBegin
    \/ CardsortShuffle
    \/ CardsortCard
    \/ CardsortEnd
    \/ DominoNext
    \/ Rerun

SpecRun == RunInit /\ [][RunNext]_vars

\* ------------------------------------------------------------ claims: runs
\* The lists of the data file have been read, or the run has ended on them
AfterRead ==
    pc \notin {"jigsaw_seed", "jigsaw_read", "cardsort_seed", "cardsort_read"}

\* The data file has the list and the layout wants another number of items
WrongCount(name) ==
    /\ name \in DOMAIN layout /\ name \in DOMAIN data
    /\ layout[name] # 0
    /\ Len(data[name]) # layout[name]

\* The layout wants any number of items but none, and the data file has
\* none
NoneGiven(name) ==
    /\ name \in DOMAIN layout /\ name \in DOMAIN data
    /\ layout[name] = 0
    /\ Len(data[name]) = 0

\* No table, no piece, no card and no draw has been made
NothingBuilt ==
    /\ DOMAIN dsubs = {<<"title", 0>>} /\ dsubsmd = NoKeys
    /\ trianglesolcard = <<>> /\ triangleorder = <<>>
    /\ trianglepuzcard = <<>>
    /\ squaresolcard = <<>> /\ squareorder = <<>> /\ squarepuzcard = <<>>
    /\ cardorder = <<>> /\ faces = <<>> /\ deck = NoKeys
    /\ puzbody = <<>> /\ solbody = <<>>
    /\ flippedpairs = <<>>
    /\ random.n = 0 /\ random.tape = <<>>

\* C12: supplying a number of pairs different from a layout's exact
\* non-zero pairs requirement terminates generation with a fatal error
\* whose message names the puzzle type and the expected count, and
\* supplying 0 cards (or 0 pairs) to a layout declaring count 0 is likewise
\* fatal; in both cases no table, piece layout or card sequencing is
\* performed.
C12_CountEnforced ==
    AfterRead =>
        /\ WrongCount("pairs") =>
              /\ pc = "exited"
              /\ Within(<<layout["typename"]>>, exitmsg)
              /\ Within(PyStr(layout["pairs"]), exitmsg)
              /\ NothingBuilt
        /\ \A name \in {"pairs", "cards"} :
              NoneGiven(name) =>
                  /\ pc = "exited"
                  /\ Within(<<layout["typename"]>>, exitmsg)
                  /\ NothingBuilt

\* A jigsaw of one piece given two pairs has exited on the count
C12_Witness ==
    /\ pc = "exited"
    /\ WrongCount("pairs")
    /\ Len(data["pairs"]) = 2
    /\ exitmsg = << "Puzzle type ", "sample", " needs exactly ", "1", " ",
                    "pairs" >>

\* The data file gives another number of edges than the layout has
EdgesMismatch ==
    /\ "edges" \in DOMAIN layout /\ "edges" \in DOMAIN data
    /\ Len(data["edges"]) # layout["edges"]

\* C13 as claimed: every cardinality mismatch between the layout's declared
\* requirements and the supplied data, for pairs, edges and cards alike, is
\* a fatal configuration error that aborts generation entirely (no output
\* bodies are built from mismatched data).
C13_Original ==
    AfterRead =>
        /\ \A name \in {"pairs", "cards"} :
              (WrongCount(name) \/ NoneGiven(name)) =>
                  pc = "exited" /\ NothingBuilt
        /\ EdgesMismatch => pc = "exited" /\ NothingBuilt

\* C13, amended: a mismatch of pairs or of cards is a fatal error that
\* aborts generation with nothing built; a mismatch of edges alone is not:
\* the run goes on with the edges cut to the number of the layout, or
\* filled up to it with blank entries.
C13_PairsCardsFatal ==
    AfterRead =>
        /\ \A name \in {"pairs", "cards"} :
              (WrongCount(name) \/ NoneGiven(name)) =>
                  pc = "exited" /\ NothingBuilt
        /\ (EdgesMismatch /\ ~ListRefused("pairs")
               /\ "cards" \notin DOMAIN data) =>
              /\ pc # "exited"
              /\ Len(edges) = layout["edges"]
              /\ \A k \in DOMAIN edges :
                    IF \E j \in DOMAIN data["edges"] :
                          data["edges"][j] = edges[k]
                    THEN TRUE
                    ELSE heap[edges[k]] = Plain(<<>>)

\* A jigsaw whose data file has one edge too few has been made: the pieces
\* are placed, the missing edge is blank
C13_Witness ==
    /\ pc = "done"
    /\ EdgesMismatch
    /\ Len(data["edges"]) < layout["edges"]
    /\ trianglepuzcard # <<>> \/ squarepuzcard # <<>>
    /\ \E k \in DOMAIN edges : edges[k] > Len(runs.heap)

\* A card sort with an empty list of cards has exited on it
C12_NoCards ==
    /\ pc = "exited"
    /\ NoneGiven("cards")
    /\ exitmsg = << "Puzzle type ", "cardsort", " needs at least one ",
                    "card" >>

\* The objects of the data file are in the heap as they were loaded
EntriesAsLoaded ==
    \A id \in DOMAIN runs.heap :
        id \in DOMAIN heap /\ heap[id] = runs.heap[id]

\* The list is the list of the data file, in its order unless the list was
\* to be shuffled, and then in some order
ListAsLoaded(lst, name, shuffled) ==
    /\ Len(lst) = Len(ListRead(name))
    /\ IF getopt(layout, data, shuffled, FALSE)
       THEN \A id \in Range(lst) \cup Range(ListRead(name)) :
               Cardinality({k \in DOMAIN lst : lst[k] = id})
               = Cardinality({k \in DOMAIN lst : ListRead(name)[k] = id})
       ELSE lst = ListRead(name)

\* The run has read its lists and come to the end of its makers
MakersDone == runs.run = 1 /\ pc = "done"

SameBut(old, new) ==
    /\ new.isdict = old.isdict
    /\ new.str = old.str
    /\ \A k \in DOMAIN old.d :
          \/ k = "newlabel" /\ old.d[k].none /\ k \notin DOMAIN new.d
          \/ /\ k \in DOMAIN new.d
             /\ IF k = "newpage" THEN new.d[k] \in {TRUE, old.d[k]}
                ELSE new.d[k] = old.d[k]
    /\ \A k \in DOMAIN new.d \ DOMAIN old.d :
          /\ k = "hidden"
          /\ new.d[k] = TRUE
          /\ "solutiontext" \in DOMAIN old.d

C16_Deleted ==
    /\ runs.run = 1
    /\ \E id \in DOMAIN runs.heap :
          Has(runs.heap[id], "newlabel") /\ ~Has(heap[id], "newlabel")

\* n times the item x
Times(n, x) == [k \in 1..n |-> x]

IsJigsaw == layout["category"] = "jigsaw"

\* What a jigsaw run asks of the random source, in the order of the claim:
\* the shuffle of the pairs, the shuffle of the edges, a choice for each
\* pair, the ordering of the triangles and a rotation for each, the
\* ordering of the squares and a rotation for each
JigsawRequests ==
    (IF getopt(layout, data, "shufflePairs", FALSE)
     THEN << [fn |-> "shuffle", a |-> 0, b |-> Len(pairs)] >> ELSE <<>>)
    \o (IF getopt(layout, data, "shuffleEdges", FALSE)
        THEN << [fn |-> "shuffle", a |-> 0, b |-> Len(edges)] >> ELSE <<>>)
    \o (IF getopt(layout, data, "flip", FALSE)
        THEN Times(Len(pairs), [fn |-> "choice", a |-> 0, b |-> 2])
        ELSE <<>>)
    \o (IF "triangleSolutionCards" \in DOMAIN layout
        THEN << [fn |-> "shuffle", a |-> 0,
                 b |-> Len(layout["triangleSolutionCards"])] >>
             \o Times(Len(layout["triangleSolutionCards"]),
                      [fn |-> "randint", a |-> 0, b |-> 2])
        ELSE <<>>)
    \o (IF "squareSolutionCards" \in DOMAIN layout
        THEN << [fn |-> "shuffle", a |-> 0,
                 b |-> Len(layout["squareSolutionCards"])] >>
             \o Times(Len(layout["squareSolutionCards"]),
                      [fn |-> "randint", a |-> 0, b |-> 3])
        ELSE <<>>)

\* The draws made since the seed, as the generator holds them
DrawsMade == SubSeq(random.tape, 1, random.n)

\* The draws made whose request is for fn with upper bound b, in order
DrawnFor(fn, b) ==
    SelectSeq(DrawsMade, LAMBDA d : d.req.fn = fn /\ d.req.b = b)

C17_BothShapes ==
    /\ IsJigsaw /\ random.seeded /\ pc = "done"
    /\ Len(trirot) = 1 /\ Len(sqrot) = 1
    /\ random.n >= 4

\* The entries that the run has given to make_entry, once it is over: those
\* of the table when a table is wanted, those of the pieces, those of the
\* dominoes or those of the cards
FormattedIds ==
    LET category == layout["category"]
        table == IF category = "jigsaw" THEN tabletex \/ solutionmd
                 ELSE tabletex
    IN  (IF table THEN TableIds(pairs, edges) \cup RealCards(heap, cards)
         ELSE {})
        \cup UNION {Range(SubSeq(trianglesolcard[k], 1, 3)) :
                       k \in DOMAIN trianglesolcard}
        \cup UNION {Range(SubSeq(squaresolcard[k], 1, 4)) :
                       k \in DOMAIN squaresolcard}
        \cup (IF category = "dominoes"
              THEN UNION {{faces[k].puzL, faces[k].puzR, faces[k].solL,
                           faces[k].solR} : k \in DOMAIN faces}
              ELSE {})
        \cup (IF category = "cardsort"
              THEN UNION {{faces[k].puz, faces[k].sol} : k \in DOMAIN faces}
              ELSE {})

\* The entry is one that make_entry renders and treats as hidden: hidden
\* true, or a solutiontext without hidden: false
TreatedHidden(e) ==
    /\ e.isdict
    /\ "text" \in DOMAIN e.d
       \/ {"puzzletext", "solutiontext"} \subseteq DOMAIN e.d
    /\ IF "hidden" \in DOMAIN e.d THEN e.d["hidden"]
       ELSE "solutiontext" \in DOMAIN e.d

C18_Hidden == runs.run = 1 /\ pc = "done" /\ exists_hidden

\* The page blocks and the cards of a body, in order: "B" for a begin-page
\* block, "E" for an end-page block, "C" for a card
RECURSIVE PageMarks(_, _)
PageMarks(body, template) ==
    IF body = <<>> THEN <<>>
    ELSE (IF Head(body) = template.begin_page[1] THEN <<"B">>
          ELSE IF Head(body) = template.end_page[1] THEN <<"E">>
          ELSE IF Head(body) = template.item[1] THEN <<"C">>
          ELSE <<>>)
         \o PageMarks(Tail(body), template)

\* The marks are pages one after another, each a begin-page block, one or
\* more cards and an end-page block
Paged(marks) ==
    /\ marks # <<>>
    /\ marks[1] = "B"
    /\ marks[Len(marks)] = "E"
    /\ \A k \in 2..Len(marks) :
          CASE marks[k] = "B" -> marks[k - 1] = "E"
            [] marks[k] = "E" -> marks[k - 1] = "C"
            [] OTHER -> marks[k - 1] \in {"B", "C"}

\* make_cardsort_cards has returned for a list that the validation accepts
\* and a grid of one cell or more
CardsMade ==
    /\ Category = "cardsort"
    /\ pc \in {"cardsort_notes", "done"}
    /\ cards # <<>>

\* C25: for every card list accepted by validation and every rows, columns
\* >= 1, the card-sort puzzle body never contains an end-page block before
\* the first card has been placed and never contains two end-page blocks
\* without a begin-page block and at least one card between them (including
\* when a forced page break coincides with a grid boundary or markers
\* repeat); begin-page and end-page blocks strictly alternate, starting with
\* begin-page and ending with end-page.
C25_PuzzlePaged ==
    CardsMade => Paged(PageMarks(puzbody, puztemplate))

\* The same of the lists that have a real card
PagedWithCards ==
    (CardsMade /\ faces # <<>>) => Paged(PageMarks(puzbody, puztemplate))

\* A list of a single newpage marker: the body has an end-page block and no
\* begin-page block
C25_OnlyMarkers ==
    /\ CardsMade
    /\ Len(cards) = 1
    /\ Has(heap[cards[1]], "newpage")
    /\ puzbody = puztemplate.begin_document \o puztemplate.end_page
                  \o puztemplate.end_document

\* A card, a newpage marker and a card on a grid of one cell: the forced
\* break falls on the grid boundary and the body has one end-page block
\* between the cards
C25_BreakOnBoundary ==
    /\ CardsMade
    /\ getopt(layout, data, "rows", 0) * getopt(layout, data, "columns", 0) = 1
    /\ Len(cards) = 3 /\ Len(faces) = 2
    /\ Has(heap[cards[2]], "newpage")
    /\ ~shufflecards
    /\ PageMarks(puzbody, puztemplate) = <<"B", "C", "E", "B", "C", "E">>

\* The page blocks and the cards of n cards on pages of so many cells, from
\* card k on, when nothing breaks a page early
RECURSIVE PlainMarks(_, _, _)
PlainMarks(k, n, cells) ==
    IF k = n THEN <<"E">>
    ELSE (IF k % cells = 0
          THEN (IF k > 0 THEN <<"E">> ELSE <<>>) \o <<"B">>
          ELSE <<>>)
         \o <<"C">> \o PlainMarks(k + 1, n, cells)

\* The default label and its size in force after the first k items of the
\* cards list, as the data file gives them
RECURSIVE LabelInForce(_)
LabelInForce(k) ==
    IF k = 0 THEN [label |-> DominoLabel, labelsize |-> DominoLabelSize]
    ELSE LET c == heap[cards[k]]
             before == LabelInForce(k - 1)
         IN  IF ~check_special(c) THEN before
             ELSE [label |-> IF Has(c, "newlabel") THEN c.d["newlabel"].text
                             ELSE before.label,
                   labelsize |-> IF Has(c, "newlabelsize")
                                 THEN c.d["newlabelsize"].n
                                 ELSE before.labelsize]

\* The items of the cards list that hold a newpage marker
NewPages == {k \in 1..Len(cards) : Has(heap[cards[k]], "newpage")}

\* The cells of a page
Cells == getopt(layout, data, "rows", 0) * getopt(layout, data, "columns", 0)

\* C26: when card shuffling is enabled, a 'force new page' special marker is
\* logged and ignored: the page counter and the emitted page structure are
\* exactly what they would be without the marker, while label and label-size
\* resets carried by special markers are still applied; special markers are
\* never counted, numbered or shuffled as cards.
C26_NewpageIgnored ==
    (CardsMade /\ shufflecards) =>
        LET n == Cardinality({k \in 1..Len(cards) :
                                 ~check_special(heap[cards[k]])})
        IN  /\ deck.stderr = Cardinality(NewPages)
            /\ deck.pagecards = IF n = 0 THEN 0 ELSE n % Cells
            /\ PageMarks(puzbody, puztemplate) = PlainMarks(0, n, Cells)
            /\ dosoln => PageMarks(solbody, soltemplate) = PlainMarks(0, n, Cells)
            /\ deck.label = LabelInForce(Len(cards)).label
            /\ deck.labelsize = LabelInForce(Len(cards)).labelsize
            /\ Len(faces) = n
            /\ Len(cardorder) = n
            /\ Range(cardorder) = 0..(n - 1)
            /\ \A k \in 1..n :
                  /\ ~check_special(heap[faces[k].puz])
                  /\ dosoln => ~check_special(heap[faces[k].sol])
                  /\ faces[k].puznum = k
                  /\ faces[k].solnum \in 1..n
                  /\ faces[k].label = LabelInForce(deck.realcards[k]).label
                  /\ faces[k].labelsize
                       = LabelInForce(deck.realcards[k]).labelsize

\* A shuffled deck of a card, a newpage marker and a card on a grid of two
\* cells: one message, and the two cards swapped on one page
C26_Witness ==
    /\ CardsMade /\ shufflecards
    /\ Cells = 2
    /\ NewPages = {2}
    /\ deck.stderr = 1
    /\ cardorder = <<1, 0>>
    /\ PageMarks(puzbody, puztemplate) = <<"B", "C", "C", "E">>

\* A shuffled deck of a label marker, a newpage marker and a card: the card
\* has the label of the marker
C26_Labelled ==
    /\ CardsMade /\ shufflecards
    /\ Len(cards) = 3 /\ NewPages = {2}
    /\ Has(heap[cards[1]], "newlabel")
    /\ Len(faces) = 1
    /\ faces[1].label = <<"L">> /\ faces[1].labelsize = 2

\* The cards of a body in order, each with the page it is on (the begin-page
\* blocks before it) and the row and column written into its item
RECURSIVE PageCells(_, _, _)
PageCells(body, template, page) ==
    IF body = <<>> THEN <<>>
    ELSE IF Head(body) = template.begin_page[1]
    THEN PageCells(Tail(body), template, page + 1)
    ELSE IF Head(body) = template.item[1]
    THEN <<[page |-> page, row |-> body[2], col |-> body[4]]>>
         \o PageCells(Tail(body), template, page)
    ELSE PageCells(Tail(body), template, page)

\* No two cards of a page in one cell, and no page of more cards than cells
OneCardPerCell(placed) ==
    /\ \A j, k \in 1..Len(placed) : j < k => placed[j] # placed[k]
    /\ \A k \in 1..Len(placed) :
          Cardinality({j \in 1..Len(placed) : placed[j].page = placed[k].page})
            <= Cells

\* C29: in the card-sort puzzle body and in the card-sort solution body
\* alike, within any single page (the items between one begin-page block and
\* the next end-page block) no two cards are given the same (row, column)
\* cell and a page holds at most rows*columns cards, for every card list
\* including lists with forced page-break markers.
C29_OneCardPerCell ==
    CardsMade =>
        /\ OneCardPerCell(PageCells(puzbody, puztemplate, 0))
        /\ dosoln => OneCardPerCell(PageCells(solbody, soltemplate, 0))

\* The same of the puzzle body alone
PuzzleCells ==
    CardsMade => OneCardPerCell(PageCells(puzbody, puztemplate, 0))

\* The same of the solution body of the lists without a newpage marker
SolutionCellsUnbroken ==
    (CardsMade /\ dosoln /\ (NewPages = {} \/ shufflecards))
        => OneCardPerCell(PageCells(solbody, soltemplate, 0))

\* A card, a newpage marker and a card on a grid of two cells, not
\* shuffled: the solution body has both cards on its first page in row 1,
\* column 1, the puzzle body has them on two pages
C29_SharedCell ==
    /\ CardsMade /\ dosoln /\ ~shufflecards
    /\ Cells = 2
    /\ NewPages = {2}
    /\ PageCells(solbody, soltemplate, 0)
         = <<[page |-> 1, row |-> "1", col |-> "1"],
             [page |-> 1, row |-> "1", col |-> "1"]>>
    /\ PageCells(puzbody, puztemplate, 0)
         = <<[page |-> 1, row |-> "1", col |-> "1"],
             [page |-> 2, row |-> "1", col |-> "1"]>>

\* A card that is not hidden and has no label of its own
DefaultLabelled(id) == ~EntryHide(heap[id]) /\ ~Has(heap[id], "label")

\* The default label and its size at the place of card id in the cards list
LabelOfCard(id) ==
    LabelInForce(CHOOSE k \in 1..Len(cards) : cards[k] = id)

\* The default label and its size that make_entry was given for a face
LabelGiven(face) == [label |-> face.label, labelsize |-> face.labelsize]

\* The puzzle views have the default label of their card's own place
PuzzleLabels ==
    \A p \in 1..Len(faces) :
        DefaultLabelled(faces[p].puz)
            => LabelGiven(faces[p]) = LabelOfCard(faces[p].puz)

\* The solution views have the default label of their card's own place
SolutionLabels ==
    \A q \in 1..Len(faces) :
        (dosoln /\ DefaultLabelled(faces[q].sol))
            => LabelGiven(faces[q]) = LabelOfCard(faces[q].sol)

\* C30: in make_cardsort_cards, every non-hidden card that has no label of
\* its own is rendered with the same default label (and label size) in the
\* puzzle view as in the solution view, namely the default in force at that
\* card's own position in the original document order, for every placement
\* of label-reset markers and whether or not the cards are shuffled.
C30_SameDefaultLabel ==
    CardsMade => (PuzzleLabels /\ SolutionLabels)

\* The same of the solution views, and of the puzzle views of the decks that
\* are printed in the order of the list
LabelsInListOrder ==
    CardsMade =>
        /\ SolutionLabels
        /\ (\A k \in 1..Len(cardorder) : cardorder[k] = k - 1) => PuzzleLabels

\* A card, a label marker and a card, shuffled into the other order: the
\* second card is first in the puzzle with the label of the data file and
\* second in the solution with the label of the marker
C30_LabelOfPlace ==
    /\ CardsMade /\ dosoln /\ shufflecards
    /\ Len(cards) = 3 /\ Len(faces) = 2
    /\ Has(heap[cards[2]], "newlabel")
    /\ cardorder = <<1, 0>>
    /\ DefaultLabelled(cards[3])
    /\ faces[1].puz = cards[3] /\ faces[1].label = <<>>
    /\ faces[2].sol = cards[3] /\ faces[2].label = <<"L">>

\* The pages of the solution body hold no more cards than cells
SolutionPageSize ==
    (CardsMade /\ dosoln) =>
        LET placed == PageCells(solbody, soltemplate, 0)
        IN  \A k \in 1..Len(placed) :
              Cardinality({j \in 1..Len(placed) :
                             placed[j].page = placed[k].page}) <= Cells

\* The item at puzzle position p is the item at solution position k: the
\* same card, or the domino of the same two faces
SameItem(p, k) ==
    IF Category = "dominoes"
    THEN faces[p].puzL = faces[k].solL /\ faces[p].puzR = faces[k].solR
    ELSE faces[k].sol # 0 /\ faces[p].puz = faces[k].sol

\* The walk of the cards or dominoes has placed every real one
AllPlaced ==
    /\ Category \in {"cardsort", "dominoes"}
    /\ pc \in {"cardsort_notes", "done"}
    /\ faces # <<>>

SecondRunDone == runs.run = 2 /\ pc = "done"

\* C9: two generation runs given identical data (same title, same
\* pairs/edges/cards, same option flags) produce identical permutations,
\* flips and rotations and therefore identical puzzle, solution and table
\* outputs.
C9_Reproducible == SecondRunDone => Observed = runs.out

\* The same of the data files whose title is a string or absent, where the
\* seed is a string
SeededRunsAgree ==
    (SecondRunDone /\ ~("title" \in DOMAIN data /\ data["title"].none))
        => Observed = runs.out

\* Two runs of a one-triangle jigsaw with a null title that drew different
\* rotations
C9_Differ ==
    /\ SecondRunDone
    /\ "title" \in DOMAIN data /\ data["title"].none
    /\ trirot # runs.out.trirot
====
